---- MODULE Spec2Model ----
(***************************************************************************)
(* Model of the keyglide backend: the registry of clients and lobbies      *)
(* (backend/src/app.rs), the lobby operations (backend/src/lobby.rs) and   *)
(* the actor loop that drains the inbound queue                            *)
(* (backend/src/app/message.rs), together with the detached sleep-then-    *)
(* send timer tasks and the connection tasks that produce messages.        *)
(*                                                                         *)
(* Time is kept relative: every pending timer and every status deadline    *)
(* holds the seconds that remain until it is due, and the Tick action      *)
(* lets at most TimeStep seconds pass, up to the next due timer.           *)
(***************************************************************************)
EXTENDS Integers, Sequences, FiniteSets, Bags, TLC

----------------------------------------------------------------------------
(* Bounds of the model.                                                    *)

\* Lobbies that are ever created (each has a fresh Uuid).
MaxLobbies == 1
\* Non-playing client connections.
NumClients == 1
\* Messages of connection tasks waiting in the inbound queue.
MaxQueue == 1
\* Sleeping timer tasks plus queued messages that can spawn one.
MaxTimers == 2
\* Seconds that pass in one Tick.
TimeStep == 10
\* common::constants::MAX_LOBBY_SIZE: the lobby logic is parametric in it.
MAX_LOBBY_SIZE == 3
\* Player connections (each has a fresh Uuid, so each id connects once): one
\* more than a lobby holds.
NumPlayers == MAX_LOBBY_SIZE + 1

(* Program constants, in seconds (backend/src/constants.rs).               *)
EMPTY_LOBBY_LIFETIME == 30
LOBBY_START_TIMER == 10
MAX_LOBBY_PLAY_TIME == 120
REDUCED_LOBBY_PLAY_TIME == 10
LOBBY_FINISH_TIME == 10

PlayerIds == 1..NumPlayers
LobbyIds == 1..MaxLobbies
ClientIds == 1..NumClients
\* Every client connection there is, one more than the lobby list is run with.
AllClientIds == 1..(NumClients + 1)
\* Option::None for an id.
None == 0

----------------------------------------------------------------------------
(* Helpers.                                                                *)

Min(S) == CHOOSE x \in S : \A y \in S : x <= y
Max(S) == CHOOSE x \in S : \A y \in S : x >= y
Monus(a, b) == IF a > b THEN a - b ELSE 0

\* The keys of a BTreeMap in iteration order.
RECURSIVE SortedSeq(_)
SortedSeq(S) == IF S = {} THEN <<>> ELSE <<Min(S)>> \o SortedSeq(S \ {Min(S)})

\* A function without the key k (BTreeMap::remove).
Without(f, k) == [x \in DOMAIN f \ {k} |-> f[x]]
\* A function with key k set to v (BTreeMap::insert).
With(f, k, v) == [x \in DOMAIN f \cup {k} |-> IF x = k THEN v ELSE f[x]]

----------------------------------------------------------------------------
(* Values.                                                                 *)

\* LobbyStatus; deadline is the embedded DateTime, as seconds from now.
WaitingForPlayers == [tag |-> "WaitingForPlayers", deadline |-> 0]
AboutToStart(d) == [tag |-> "AboutToStart", deadline |-> d]
InProgress(d) == [tag |-> "InProgress", deadline |-> d]
Finish(d) == [tag |-> "Finish", deadline |-> d]

\* A score in [0,1] as a fraction <<numerator, denominator>> in lowest terms.
RECURSIVE Gcd(_, _)
Gcd(a, b) == IF b = 0 THEN a ELSE Gcd(b, a % b)
Frac(n, d) == <<n \div Gcd(n, d), d \div Gcd(n, d)>>
Zero == <<0, 1>>
One == <<1, 1>>

\* Player::new: a fresh player has progress 0.0.
NewPlayer == [progress |-> Zero, waiting |-> FALSE]

\* Lobby::default: no owner, no players, WaitingForPlayers.
EmptyMap == [x \in {} |-> None]
DefaultLobby == [owner |-> None, players |-> EmptyMap, status |-> WaitingForPlayers]

\* Recipients of an outbound message.
ToPlayer(p) == [kind |-> "player", id |-> p]
ToClient(c) == [kind |-> "client", id |-> c]
ToReply(r) == [kind |-> "reply", id |-> r]
Send(to, msg) == [to |-> to, msg |-> msg]

\* Lobby::broadcast: one send per player, in the order of the player map.
broadcast(lobby, msg) ==
    LET ids == SortedSeq(DOMAIN lobby.players)
    IN [i \in 1..Len(ids) |-> Send(ToPlayer(ids[i]), msg)]

\* A sleeping task that will send msg after rem more seconds.
Timer(msg, rem) == [msg |-> msg, rem |-> rem]

----------------------------------------------------------------------------
VARIABLES
    lobbies,    \* App::lobbies: lobby id -> Lobby
    clients,    \* App::clients: the ids of the registered clients
    queue,      \* the inbound queue of AppMessages (App::rx)
    timers,     \* the sleeping timer tasks, a bag of Timer records
    usedIds,    \* the lobby ids generated so far (Uuid::new_v4 never repeats)
    conn,       \* per player connection: target lobby, join sent, socket closed
    cconn,      \* per client connection: "new", "open" or "closed"
    emptyFor,   \* per lobby: seconds it has been empty without interruption
    sinceWin,   \* per lobby: seconds since the first player of the race finished
    eval,       \* the progress evaluator applied on its own: its inputs and its score
    view,       \* per client connection: the lobby list the client shows (Join::lobby_list)
    last        \* what the actor loop did in the step just taken, or NoStep

vars ==
    <<lobbies, clients, queue, timers, usedIds, conn, cconn, emptyFor, sinceWin, eval,
      view, last>>

NoStep == [msg |-> [type |-> "None"]]
\* The evaluator is not looked at on its own.
NoEval == [scored |-> FALSE]

----------------------------------------------------------------------------
(* AppMessage, the messages of the inbound queue.                          *)

ProvideLobbyInformationMsg(mode, l) ==
    [type |-> "ProvideLobbyInformation", join_mode |-> mode, lobby_id |-> l]
AddPlayerToLobbyMsg(l, p) == [type |-> "AddPlayerToLobby", lobby_id |-> l, player |-> p]
RemovePlayerMsg(p, l) == [type |-> "RemovePlayer", player |-> p, lobby_id |-> l]
SendMessageMsg(p, l) == [type |-> "SendMessage", player |-> p, lobby_id |-> l]
CurrentLobbiesMsg(c) == [type |-> "CurrentLobbies", client_id |-> c]
AddLobbyMsg(l) == [type |-> "AddLobby", lobby_id |-> l]
SendLobbyPlayerCountUpdateMsg(l) == [type |-> "SendLobbyPlayerCountUpdate", lobby_id |-> l]
SendLobbyStatusUpdateMsg(l) == [type |-> "SendLobbyStatusUpdate", lobby_id |-> l]
RemoveLobbyMsg(l) == [type |-> "RemoveLobby", lobby_id |-> l]
LobbyFullMsg(p) == [type |-> "LobbyFull", player_tx |-> p]
LobbyNotWaitingForPlayersMsg(p) == [type |-> "LobbyNotWaitingForPlayers", player_tx |-> p]
SendConnectionCountsMsg == [type |-> "SendConnectionCounts"]
AddClientMsg(c) == [type |-> "AddClient", client_id |-> c]
RemoveClientMsg(c) == [type |-> "RemoveClient", client_id |-> c]
RequestStartMsg(p, l) == [type |-> "RequestStart", player |-> p, lobby_id |-> l]
StartMsg(l) == [type |-> "Start", lobby_id |-> l]
FinishMsg(l) == [type |-> "Finish", lobby_id |-> l]
ResetMsg(l) == [type |-> "Reset", lobby_id |-> l]
ComputePlayerProgressMsg(l, p, bytes) ==
    [type |-> "ComputePlayerProgress", lobby_id |-> l, player_id |-> p, progress |-> bytes]

----------------------------------------------------------------------------
(* The result of handling one message: the new registry, the messages sent *)
(* to outbound channels (in order), the messages sent to the inbound queue *)
(* (in order) and the timer tasks spawned.                                 *)

Effect(ls, cs, sent, enq, armed) ==
    [lobbies |-> ls, clients |-> cs, sent |-> sent, enq |-> enq, armed |-> armed]

\* The handler returns early (continue): nothing changes.
Skip == Effect(lobbies, clients, <<>>, <<>>, <<>>)

\* The result of a Lobby method: the lobby after the call and what it sent.
LobbyEffect(lobby, sent, enq, armed) ==
    [lobby |-> lobby, sent |-> sent, enq |-> enq, armed |-> armed]

\* The effect on the registry of a method called on lobbies[l].
InLobby(l, e) == Effect(With(lobbies, l, e.lobby), clients, e.sent, e.enq, e.armed)

----------------------------------------------------------------------------
(* Lobby (backend/src/lobby.rs).                                           *)

\* seat that makes every new player the owner.
seat_AlwaysOwner(lobby, lobby_id, player) ==
    LET inserted == [lobby EXCEPT !.players = With(lobby.players, player, NewPlayer)]
    IN LobbyEffect(
        [inserted EXCEPT !.owner = player],
        broadcast(inserted, [type |-> "AddPlayer", id |-> player, progress |-> Zero])
            \o <<Send(ToPlayer(player), [type |-> "AssignOwner", id |-> player]),
                 Send(ToPlayer(player), [type |-> "ProvidePlayerId", id |-> player])>>,
        <<SendLobbyPlayerCountUpdateMsg(lobby_id), SendConnectionCountsMsg>>,
        <<>>)

\* seat that tells the first player that it is the owner before it announces
\* the player to the lobby.
seat_OwnerFirst(lobby, lobby_id, player) ==
    LET inserted == [lobby EXCEPT !.players = With(lobby.players, player, NewPlayer)]
        first == Cardinality(DOMAIN inserted.players) = 1
        after == IF first THEN [inserted EXCEPT !.owner = player] ELSE inserted
    IN LobbyEffect(
        after,
        (IF first
         THEN <<Send(ToPlayer(player), [type |-> "AssignOwner", id |-> player])>>
         ELSE <<>>)
            \o broadcast(inserted, [type |-> "AddPlayer", id |-> player, progress |-> Zero])
            \o <<Send(ToPlayer(player), [type |-> "ProvidePlayerId", id |-> player])>>,
        <<SendLobbyPlayerCountUpdateMsg(lobby_id), SendConnectionCountsMsg>>,
        <<>>)

\* Lobby::add_player, past the two early returns: the player is inserted and
\* told its id, and the first player becomes the owner.
seat(lobby, lobby_id, player) ==
    LET inserted == [lobby EXCEPT !.players = With(lobby.players, player, NewPlayer)]
        first == Cardinality(DOMAIN inserted.players) = 1
        after == IF first THEN [inserted EXCEPT !.owner = player] ELSE inserted
    IN LobbyEffect(
        after,
        broadcast(inserted, [type |-> "AddPlayer", id |-> player, progress |-> Zero])
            \o (IF first
                THEN <<Send(ToPlayer(player), [type |-> "AssignOwner", id |-> player])>>
                ELSE <<>>)
            \o <<Send(ToPlayer(player), [type |-> "ProvidePlayerId", id |-> player])>>,
        <<SendLobbyPlayerCountUpdateMsg(lobby_id), SendConnectionCountsMsg>>,
        <<>>)

\* add_player with the capacity check left out.
add_player_NoFullCheck(lobby, lobby_id, player) ==
    IF lobby.status # WaitingForPlayers
    THEN LobbyEffect(lobby, <<>>, <<LobbyNotWaitingForPlayersMsg(player)>>, <<>>)
    ELSE seat(lobby, lobby_id, player)

\* add_player with the status check made before the capacity check.
add_player_StatusFirst(lobby, lobby_id, player) ==
    IF lobby.status # WaitingForPlayers
    THEN LobbyEffect(lobby, <<>>, <<LobbyNotWaitingForPlayersMsg(player)>>, <<>>)
    ELSE IF Cardinality(DOMAIN lobby.players) >= MAX_LOBBY_SIZE
    THEN LobbyEffect(lobby, <<>>, <<LobbyFullMsg(player)>>, <<>>)
    ELSE seat(lobby, lobby_id, player)

\* add_player with the status check left out.
add_player_NoStatusCheck(lobby, lobby_id, player) ==
    IF Cardinality(DOMAIN lobby.players) >= MAX_LOBBY_SIZE
    THEN LobbyEffect(lobby, <<>>, <<LobbyFullMsg(player)>>, <<>>)
    ELSE seat(lobby, lobby_id, player)

\* Lobby::add_player
add_player(lobby, lobby_id, player) ==
    IF Cardinality(DOMAIN lobby.players) >= MAX_LOBBY_SIZE
    THEN LobbyEffect(lobby, <<>>, <<LobbyFullMsg(player)>>, <<>>)
    ELSE IF lobby.status # WaitingForPlayers
    THEN LobbyEffect(lobby, <<>>, <<LobbyNotWaitingForPlayersMsg(player)>>, <<>>)
    ELSE seat(lobby, lobby_id, player)

\* remove_player that keeps the owner when the owner leaves.
remove_player_NoElection(lobby, lobby_id, player) ==
    IF player \notin DOMAIN lobby.players
    THEN LobbyEffect(lobby, <<>>, <<>>, <<>>)
    ELSE
        LET removed == [lobby EXCEPT !.players = Without(lobby.players, player)]
            empty == DOMAIN removed.players = {}
            after == IF empty
                     THEN [removed EXCEPT !.owner = None, !.status = WaitingForPlayers]
                     ELSE removed
        IN LobbyEffect(
            after,
            broadcast(removed, [type |-> "RemovePlayer", id |-> player]),
            <<SendLobbyPlayerCountUpdateMsg(lobby_id), SendConnectionCountsMsg>>
                \o (IF empty THEN <<SendLobbyStatusUpdateMsg(lobby_id)>> ELSE <<>>),
            IF empty
            THEN <<Timer(RemoveLobbyMsg(lobby_id), EMPTY_LOBBY_LIFETIME)>>
            ELSE <<>>)

\* remove_player that elects the remaining member with the largest id.
remove_player_ElectLargest(lobby, lobby_id, player) ==
    IF player \notin DOMAIN lobby.players
    THEN LobbyEffect(lobby, <<>>, <<>>, <<>>)
    ELSE
        LET removed == [lobby EXCEPT !.players = Without(lobby.players, player)]
            elect == lobby.owner = player /\ DOMAIN removed.players # {}
            elected == IF elect
                       THEN [removed EXCEPT !.owner = Max(DOMAIN removed.players)]
                       ELSE removed
            empty == DOMAIN removed.players = {}
            after == IF empty
                     THEN [elected EXCEPT !.owner = None, !.status = WaitingForPlayers]
                     ELSE elected
        IN LobbyEffect(
            after,
            broadcast(removed, [type |-> "RemovePlayer", id |-> player])
                \o (IF elect
                    THEN broadcast(elected, [type |-> "AssignOwner", id |-> elected.owner])
                    ELSE <<>>),
            <<SendLobbyPlayerCountUpdateMsg(lobby_id), SendConnectionCountsMsg>>
                \o (IF empty THEN <<SendLobbyStatusUpdateMsg(lobby_id)>> ELSE <<>>),
            IF empty
            THEN <<Timer(RemoveLobbyMsg(lobby_id), EMPTY_LOBBY_LIFETIME)>>
            ELSE <<>>)

\* remove_player without the check that the player is a member of the lobby.
remove_player_NoMemberCheck(lobby, lobby_id, player) ==
    LET removed == [lobby EXCEPT !.players = Without(lobby.players, player)]
        elect == lobby.owner = player /\ DOMAIN removed.players # {}
        elected == IF elect
                   THEN [removed EXCEPT !.owner = Min(DOMAIN removed.players)]
                   ELSE removed
        empty == DOMAIN removed.players = {}
        after == IF empty
                 THEN [elected EXCEPT !.owner = None, !.status = WaitingForPlayers]
                 ELSE elected
    IN LobbyEffect(
        after,
        broadcast(removed, [type |-> "RemovePlayer", id |-> player])
            \o (IF elect
                THEN broadcast(elected, [type |-> "AssignOwner", id |-> elected.owner])
                ELSE <<>>),
        <<SendLobbyPlayerCountUpdateMsg(lobby_id), SendConnectionCountsMsg>>
            \o (IF empty THEN <<SendLobbyStatusUpdateMsg(lobby_id)>> ELSE <<>>),
        IF empty
        THEN <<Timer(RemoveLobbyMsg(lobby_id), EMPTY_LOBBY_LIFETIME)>>
        ELSE <<>>)

\* remove_player that leaves the status of an emptied lobby as it is.
remove_player_KeepStatus(lobby, lobby_id, player) ==
    IF player \notin DOMAIN lobby.players
    THEN LobbyEffect(lobby, <<>>, <<>>, <<>>)
    ELSE
        LET removed == [lobby EXCEPT !.players = Without(lobby.players, player)]
            elect == lobby.owner = player /\ DOMAIN removed.players # {}
            elected == IF elect
                       THEN [removed EXCEPT !.owner = Min(DOMAIN removed.players)]
                       ELSE removed
            empty == DOMAIN removed.players = {}
            after == IF empty THEN [elected EXCEPT !.owner = None] ELSE elected
        IN LobbyEffect(
            after,
            broadcast(removed, [type |-> "RemovePlayer", id |-> player])
                \o (IF elect
                    THEN broadcast(elected, [type |-> "AssignOwner", id |-> elected.owner])
                    ELSE <<>>),
            <<SendLobbyPlayerCountUpdateMsg(lobby_id), SendConnectionCountsMsg>>
                \o (IF empty THEN <<SendLobbyStatusUpdateMsg(lobby_id)>> ELSE <<>>),
            IF empty
            THEN <<Timer(RemoveLobbyMsg(lobby_id), EMPTY_LOBBY_LIFETIME)>>
            ELSE <<>>)

\* Lobby::remove_player
remove_player(lobby, lobby_id, player) ==
    IF player \notin DOMAIN lobby.players
    THEN LobbyEffect(lobby, <<>>, <<>>, <<>>)
    ELSE
        LET removed == [lobby EXCEPT !.players = Without(lobby.players, player)]
            elect == lobby.owner = player /\ DOMAIN removed.players # {}
            elected == IF elect
                       THEN [removed EXCEPT !.owner = Min(DOMAIN removed.players)]
                       ELSE removed
            empty == DOMAIN removed.players = {}
            after == IF empty
                     THEN [elected EXCEPT !.owner = None, !.status = WaitingForPlayers]
                     ELSE elected
        IN LobbyEffect(
            after,
            broadcast(removed, [type |-> "RemovePlayer", id |-> player])
                \o (IF elect
                    THEN broadcast(elected, [type |-> "AssignOwner", id |-> elected.owner])
                    ELSE <<>>),
            <<SendLobbyPlayerCountUpdateMsg(lobby_id), SendConnectionCountsMsg>>
                \o (IF empty THEN <<SendLobbyStatusUpdateMsg(lobby_id)>> ELSE <<>>),
            IF empty
            THEN <<Timer(RemoveLobbyMsg(lobby_id), EMPTY_LOBBY_LIFETIME)>>
            ELSE <<>>)

\* Lobby::send_message
send_message(lobby, player) ==
    IF player \in DOMAIN lobby.players
    THEN broadcast(lobby, [type |-> "SendMessage", from |-> player])
    ELSE <<>>

\* Lobby::to_list_item
to_list_item(lobby) ==
    [player_count |-> Cardinality(DOMAIN lobby.players), status |-> lobby.status]

\* Lobby::to_information
to_information(lobby_id, lobby) ==
    [id |-> lobby_id, status |-> lobby.status, owner |-> lobby.owner,
     players |-> [p \in DOMAIN lobby.players |-> lobby.players[p].progress]]

----------------------------------------------------------------------------
(* Progress evaluator.                                                     *)

\* The goal file of every lobby (Lobby::default loads assets/goal.rs).
GoalFile == <<1, 2>>
\* The byte buffers a player submits: a partial file, the goal file and a
\* buffer that is not valid UTF-8.
Submissions == {<<1>>, <<1, 2>>, <<255>>}

\* std::str::from_utf8 on single-byte characters: every byte must be ASCII.
from_utf8_ok(bytes) == \A i \in 1..Len(bytes) : bytes[i] < 128

\* strsim::levenshtein
RECURSIVE levenshtein(_, _)
levenshtein(a, b) ==
    IF a = <<>> THEN Len(b)
    ELSE IF b = <<>> THEN Len(a)
    ELSE Min({levenshtein(Tail(a), b) + 1,
              levenshtein(a, Tail(b)) + 1,
              levenshtein(Tail(a), Tail(b)) + (IF Head(a) = Head(b) THEN 0 ELSE 1)})

\* normalized_levenshtein that divides by the length of a alone.
normalized_levenshtein_ByGoal(a, b) ==
    IF a = <<>> /\ b = <<>> THEN One
    ELSE LET m == Max({Len(a), 1}) IN Frac(m - levenshtein(a, b), m)

\* normalized_levenshtein that returns the normalized distance itself.
normalized_levenshtein_Distance(a, b) ==
    IF a = <<>> /\ b = <<>> THEN One
    ELSE LET m == Max({Len(a), Len(b)}) IN Frac(levenshtein(a, b), m)

\* strsim::normalized_levenshtein: 1 - distance / max(len a, len b).
normalized_levenshtein(a, b) ==
    IF a = <<>> /\ b = <<>> THEN One
    ELSE LET m == Max({Len(a), Len(b)}) IN Frac(m - levenshtein(a, b), m)

----------------------------------------------------------------------------
(* App (backend/src/app.rs).                                               *)

\* The number of players of lobby l.
Count(l) == Cardinality(DOMAIN lobbies[l].players)

\* The sends of one message to every registered client, in map order.
ToAllClients(cs, msg) ==
    LET ids == SortedSeq(cs) IN [i \in 1..Len(ids) |-> Send(ToClient(ids[i]), msg)]

\* One broadcast of msg per lobby of ls, in map order.
RECURSIVE BroadcastAll(_, _, _)
BroadcastAll(ls, ids, msg) ==
    IF ids = <<>> THEN <<>>
    ELSE broadcast(ls[Head(ids)], msg) \o BroadcastAll(ls, Tail(ids), msg)

\* App::create_new_lobby, fresh being the new lobby's Uuid.
create_new_lobby(fresh) ==
    [ok |-> TRUE, id |-> fresh, lobbies |-> With(lobbies, fresh, DefaultLobby),
     enq |-> <<AddLobbyMsg(fresh)>>]

\* Whether get_lobby_id creates a lobby for this join mode.
Creates(join_mode) ==
    \/ join_mode = "Create"
    \/ join_mode = "Quickplay"
       /\ \A l \in DOMAIN lobbies : Count(l) >= MAX_LOBBY_SIZE

\* get_lobby_id whose Quickplay takes the lobby with the most players without
\* asking for a free seat.
get_lobby_id_NoFilter(join_mode, lobby_id, fresh) ==
    LET found(id) == [ok |-> TRUE, id |-> id, lobbies |-> lobbies, enq |-> <<>>]
        notFound == [ok |-> FALSE, id |-> None, lobbies |-> lobbies, enq |-> <<>>]
        most == Max({Count(l) : l \in DOMAIN lobbies})
    IN CASE join_mode = "Quickplay" ->
              IF DOMAIN lobbies # {}
              THEN found(Max({l \in DOMAIN lobbies : Count(l) = most}))
              ELSE create_new_lobby(fresh)
         [] join_mode = "Join" ->
              IF lobby_id \in DOMAIN lobbies THEN found(lobby_id) ELSE notFound
         [] join_mode = "Create" -> create_new_lobby(fresh)

\* get_lobby_id whose Create takes an open lobby when there is one, as
\* Quickplay does.
get_lobby_id_CreateReuses(join_mode, lobby_id, fresh) ==
    LET found(id) == [ok |-> TRUE, id |-> id, lobbies |-> lobbies, enq |-> <<>>]
        notFound == [ok |-> FALSE, id |-> None, lobbies |-> lobbies, enq |-> <<>>]
        open == {l \in DOMAIN lobbies : Count(l) < MAX_LOBBY_SIZE}
        most == Max({Count(l) : l \in open})
    IN CASE join_mode \in {"Quickplay", "Create"} ->
              IF open # {}
              THEN found(Max({l \in open : Count(l) = most}))
              ELSE create_new_lobby(fresh)
         [] join_mode = "Join" ->
              IF lobby_id \in DOMAIN lobbies THEN found(lobby_id) ELSE notFound

\* App::get_lobby_id
get_lobby_id(join_mode, lobby_id, fresh) ==
    LET found(id) == [ok |-> TRUE, id |-> id, lobbies |-> lobbies, enq |-> <<>>]
        notFound == [ok |-> FALSE, id |-> None, lobbies |-> lobbies, enq |-> <<>>]
        open == {l \in DOMAIN lobbies : Count(l) < MAX_LOBBY_SIZE}
        most == Max({Count(l) : l \in open})
    IN CASE join_mode = "Quickplay" ->
              IF open # {}
              \* max_by_key returns the last of several maximal elements.
              THEN found(Max({l \in open : Count(l) = most}))
              ELSE create_new_lobby(fresh)
         [] join_mode = "Join" ->
              IF lobby_id \in DOMAIN lobbies THEN found(lobby_id) ELSE notFound
         [] join_mode = "Create" -> create_new_lobby(fresh)

\* App::get_current_lobbies
get_current_lobbies == [l \in DOMAIN lobbies |-> to_list_item(lobbies[l])]

\* routes/clients.rs, the forwarding task of client c: it holds the receiver
\* of the client's channel until recv() yields None, that is until App::clients
\* holds no sender of it any more. The end of the socket does not end the
\* task: a failed write to the socket is logged and the loop goes on.
ReceiverDropped_WithSocket(c) == c \notin clients \/ cconn[c] = "closed"

ReceiverDropped(c) == c \notin clients

\* for client in self.clients.values() { client.send(msg)?; }: the sends in
\* map order, given up at the first one that fails.
RECURSIVE SendUntilError(_, _)
SendUntilError(ids, msg) ==
    IF ids = <<>> THEN <<>>
    ELSE IF ReceiverDropped(Head(ids)) THEN <<>>
    ELSE <<Send(ToClient(Head(ids)), msg)>> \o SendUntilError(Tail(ids), msg)

\* remove_lobby without the check that the lobby is empty.
remove_lobby_NoEmptyCheck(lobby_id) ==
    IF lobby_id \notin DOMAIN lobbies THEN Skip
    ELSE Effect(Without(lobbies, lobby_id), clients,
                ToAllClients(clients, [type |-> "RemoveLobby", id |-> lobby_id]),
                <<>>, <<>>)

\* App::remove_lobby
remove_lobby(lobby_id) ==
    IF lobby_id \notin DOMAIN lobbies THEN Skip
    ELSE IF DOMAIN lobbies[lobby_id].players = {}
    THEN Effect(Without(lobbies, lobby_id), clients,
                SendUntilError(SortedSeq(clients),
                               [type |-> "RemoveLobby", id |-> lobby_id]),
                <<>>, <<>>)
    ELSE Skip

\* App::send_lobby_list_information
send_lobby_list_information(lobby_id) ==
    IF lobby_id \notin DOMAIN lobbies THEN Skip
    ELSE Effect(lobbies, clients,
                SendUntilError(SortedSeq(clients),
                               [type |-> "AddLobby", id |-> lobby_id,
                                item |-> to_list_item(lobbies[lobby_id])]),
                <<>>, <<>>)

----------------------------------------------------------------------------
(* The actor loop (backend/src/app/message.rs, handle_app_message): the    *)
(* effect of each match arm on the message m.                              *)

\* AppMessage::ProvideLobbyInformation
OnProvideLobbyInformation(m, fresh) ==
    LET r == get_lobby_id(m.join_mode, m.lobby_id, fresh)
    IN IF ~r.ok THEN Skip
       ELSE Effect(r.lobbies, clients,
                   <<Send(ToReply(None), [type |-> "SendLobbyInformation",
                                          info |-> to_information(r.id, r.lobbies[r.id])])>>,
                   r.enq, <<>>)

\* The AddPlayerToLobby arm that opens the lobby when the registry does not
\* hold it.
OnAddPlayerToLobby_CreateMissing(m) ==
    IF m.lobby_id \notin DOMAIN lobbies
    THEN InLobby(m.lobby_id, add_player(DefaultLobby, m.lobby_id, m.player))
    ELSE InLobby(m.lobby_id, add_player(lobbies[m.lobby_id], m.lobby_id, m.player))

\* AppMessage::AddPlayerToLobby
OnAddPlayerToLobby(m) ==
    IF m.lobby_id \notin DOMAIN lobbies THEN Skip
    ELSE InLobby(m.lobby_id, add_player(lobbies[m.lobby_id], m.lobby_id, m.player))

\* AppMessage::RemovePlayer
OnRemovePlayer(m) ==
    IF m.lobby_id \notin DOMAIN lobbies THEN Skip
    ELSE InLobby(m.lobby_id, remove_player(lobbies[m.lobby_id], m.lobby_id, m.player))

\* AppMessage::SendMessage
OnSendMessage(m) ==
    IF m.lobby_id \notin DOMAIN lobbies THEN Skip
    ELSE Effect(lobbies, clients, send_message(lobbies[m.lobby_id], m.player), <<>>, <<>>)

\* AppMessage::LobbyFull
OnLobbyFull(m) ==
    Effect(lobbies, clients, <<Send(ToPlayer(m.player_tx), [type |-> "LobbyFull"])>>,
           <<>>, <<>>)

\* AppMessage::LobbyNotWaitingForPlayers
OnLobbyNotWaitingForPlayers(m) ==
    Effect(lobbies, clients,
           <<Send(ToPlayer(m.player_tx), [type |-> "LobbyNotWaitingForPlayers"])>>,
           <<>>, <<>>)

\* AppMessage::CurrentLobbies
OnCurrentLobbies(m) ==
    IF m.client_id \notin clients THEN Skip
    ELSE Effect(lobbies, clients,
                <<Send(ToClient(m.client_id),
                       [type |-> "CurrentLobbies", lobbies |-> get_current_lobbies])>>,
                <<>>, <<>>)

\* AppMessage::AddLobby
OnAddLobby(m) == send_lobby_list_information(m.lobby_id)

\* AppMessage::RemoveLobby
OnRemoveLobby(m) == remove_lobby(m.lobby_id)

\* AppMessage::AddClient
OnAddClient(m) ==
    Effect(lobbies, clients \cup {m.client_id}, <<>>, <<SendConnectionCountsMsg>>, <<>>)

\* AppMessage::RemoveClient
OnRemoveClient(m) ==
    Effect(lobbies, clients \ {m.client_id}, <<>>, <<SendConnectionCountsMsg>>, <<>>)

\* AppMessage::SendConnectionCounts
OnSendConnectionCounts(m) ==
    LET ids == SortedSeq(DOMAIN lobbies)
        RECURSIVE Sum(_)
        Sum(s) == IF s = <<>> THEN 0 ELSE Count(Head(s)) + Sum(Tail(s))
        msg == [type |-> "ConnectionCounts", clients |-> Cardinality(clients),
                players |-> Sum(ids)]
    IN Effect(lobbies, clients,
              ToAllClients(clients, msg) \o BroadcastAll(lobbies, ids, msg), <<>>, <<>>)

\* The RequestStart arm without the check that the requester is the owner.
OnRequestStart_AnyPlayer(m) ==
    IF m.lobby_id \notin DOMAIN lobbies THEN Skip
    ELSE LET lobby == lobbies[m.lobby_id] IN
         IF lobby.status = WaitingForPlayers
         THEN LET started == [lobby EXCEPT !.status = AboutToStart(LOBBY_START_TIMER)]
              IN Effect(With(lobbies, m.lobby_id, started), clients,
                        broadcast(started, [type |-> "StatusUpdate", status |-> started.status]),
                        <<SendLobbyStatusUpdateMsg(m.lobby_id)>>,
                        <<Timer(StartMsg(m.lobby_id), LOBBY_START_TIMER)>>)
         ELSE Skip

\* AppMessage::RequestStart
OnRequestStart(m) ==
    IF m.lobby_id \notin DOMAIN lobbies THEN Skip
    ELSE LET lobby == lobbies[m.lobby_id] IN
         IF lobby.owner # None /\ lobby.owner = m.player /\ lobby.status = WaitingForPlayers
         THEN LET started == [lobby EXCEPT !.status = AboutToStart(LOBBY_START_TIMER)]
              IN Effect(With(lobbies, m.lobby_id, started), clients,
                        broadcast(started, [type |-> "StatusUpdate", status |-> started.status]),
                        <<SendLobbyStatusUpdateMsg(m.lobby_id)>>,
                        <<Timer(StartMsg(m.lobby_id), LOBBY_START_TIMER)>>)
         ELSE Skip

\* The Start arm without the check that the lobby is about to start.
OnStart_Unguarded(m) ==
    IF m.lobby_id \notin DOMAIN lobbies THEN Skip
    ELSE LET lobby == lobbies[m.lobby_id]
             started == [lobby EXCEPT !.status = InProgress(MAX_LOBBY_PLAY_TIME)]
         IN Effect(With(lobbies, m.lobby_id, started), clients,
                   broadcast(started, [type |-> "StatusUpdate", status |-> started.status]),
                   <<SendLobbyStatusUpdateMsg(m.lobby_id)>>,
                   <<Timer(FinishMsg(m.lobby_id), MAX_LOBBY_PLAY_TIME)>>)

\* AppMessage::Start
OnStart(m) ==
    IF m.lobby_id \notin DOMAIN lobbies THEN Skip
    ELSE LET lobby == lobbies[m.lobby_id] IN
         IF lobby.status.tag # "AboutToStart" THEN Skip
         ELSE LET started == [lobby EXCEPT !.status = InProgress(MAX_LOBBY_PLAY_TIME)]
              IN Effect(With(lobbies, m.lobby_id, started), clients,
                        broadcast(started, [type |-> "StatusUpdate", status |-> started.status]),
                        <<SendLobbyStatusUpdateMsg(m.lobby_id)>>,
                        <<Timer(FinishMsg(m.lobby_id), MAX_LOBBY_PLAY_TIME)>>)

\* AppMessage::SendLobbyPlayerCountUpdate
OnSendLobbyPlayerCountUpdate(m) ==
    IF m.lobby_id \notin DOMAIN lobbies THEN Skip
    ELSE Effect(lobbies, clients,
                ToAllClients(clients, [type |-> "UpdateLobbyPlayerCount", id |-> m.lobby_id,
                                       player_count |-> Count(m.lobby_id)]),
                <<>>, <<>>)

\* AppMessage::SendLobbyStatusUpdate
OnSendLobbyStatusUpdate(m) ==
    IF m.lobby_id \notin DOMAIN lobbies THEN Skip
    ELSE Effect(lobbies, clients,
                ToAllClients(clients, [type |-> "UpdateLobbyStatus", id |-> m.lobby_id,
                                       status |-> lobbies[m.lobby_id].status]),
                <<>>, <<>>)

\* The Finish arm without the check that the lobby is in progress.
OnFinish_Unguarded(m) ==
    IF m.lobby_id \notin DOMAIN lobbies THEN Skip
    ELSE LET lobby == lobbies[m.lobby_id]
             finished == [lobby EXCEPT !.status = Finish(LOBBY_FINISH_TIME)]
         IN Effect(With(lobbies, m.lobby_id, finished), clients,
                   broadcast(finished, [type |-> "StatusUpdate", status |-> finished.status]),
                   <<SendLobbyStatusUpdateMsg(m.lobby_id)>>,
                   <<Timer(ResetMsg(m.lobby_id), LOBBY_FINISH_TIME)>>)

\* AppMessage::Finish
OnFinish(m) ==
    IF m.lobby_id \notin DOMAIN lobbies THEN Skip
    ELSE LET lobby == lobbies[m.lobby_id] IN
         IF lobby.status.tag # "InProgress" THEN Skip
         ELSE LET finished == [lobby EXCEPT !.status = Finish(LOBBY_FINISH_TIME)]
              IN Effect(With(lobbies, m.lobby_id, finished), clients,
                        broadcast(finished, [type |-> "StatusUpdate", status |-> finished.status]),
                        <<SendLobbyStatusUpdateMsg(m.lobby_id)>>,
                        <<Timer(ResetMsg(m.lobby_id), LOBBY_FINISH_TIME)>>)

\* The broadcasts of Reset: for every player, its progress to every player.
RECURSIVE ProgressBroadcasts(_, _)
ProgressBroadcasts(lobby, ids) ==
    IF ids = <<>> THEN <<>>
    ELSE broadcast(lobby, [type |-> "UpdatePlayerProgress", player_id |-> Head(ids),
                           progress |-> lobby.players[Head(ids)].progress])
         \o ProgressBroadcasts(lobby, Tail(ids))

\* The Reset arm that leaves the progress of the players as it is.
OnReset_KeepProgress(m) ==
    IF m.lobby_id \notin DOMAIN lobbies THEN Skip
    ELSE LET lobby == lobbies[m.lobby_id]
             reset == [lobby EXCEPT !.status = WaitingForPlayers]
         IN Effect(With(lobbies, m.lobby_id, reset), clients,
                   ProgressBroadcasts(lobby, SortedSeq(DOMAIN lobby.players))
                       \o broadcast(reset, [type |-> "StatusUpdate", status |-> reset.status]),
                   <<SendLobbyStatusUpdateMsg(m.lobby_id)>>,
                   <<>>)

\* AppMessage::Reset
OnReset(m) ==
    IF m.lobby_id \notin DOMAIN lobbies THEN Skip
    ELSE LET lobby == lobbies[m.lobby_id]
             zeroed == [lobby EXCEPT !.players =
                           [p \in DOMAIN lobby.players |->
                               [lobby.players[p] EXCEPT !.progress = Zero]]]
             reset == [zeroed EXCEPT !.status = WaitingForPlayers]
         IN Effect(With(lobbies, m.lobby_id, reset), clients,
                   ProgressBroadcasts(zeroed, SortedSeq(DOMAIN zeroed.players))
                       \o broadcast(reset, [type |-> "StatusUpdate", status |-> reset.status]),
                   <<SendLobbyStatusUpdateMsg(m.lobby_id)>>,
                   <<>>)

\* The ComputePlayerProgress arm without the reduced play time: a finished
\* player is announced, but the deadline and the timers stay as they are.
OnComputePlayerProgress_NoShortcut(m) ==
    IF m.lobby_id \notin DOMAIN lobbies THEN Skip
    ELSE LET lobby == lobbies[m.lobby_id]
             finished_player_count ==
                 Cardinality({p \in DOMAIN lobby.players : lobby.players[p].progress = One})
         IN IF m.player_id \notin DOMAIN lobby.players THEN Skip
            ELSE IF lobby.players[m.player_id].waiting THEN Skip
            ELSE IF lobby.status.tag # "InProgress" THEN Skip
            ELSE IF ~from_utf8_ok(GoalFile) THEN Skip
            ELSE IF ~from_utf8_ok(m.progress) THEN Skip
            ELSE
              LET progress == normalized_levenshtein(GoalFile, m.progress)
                  scored == [lobby EXCEPT !.players[m.player_id].progress = progress]
                  won == progress = One
              IN Effect(With(lobbies, m.lobby_id, scored), clients,
                        (IF won
                         THEN broadcast(scored, [type |-> "SendMessage", from |-> m.player_id,
                                                 position |-> finished_player_count + 1])
                              \o broadcast(scored, [type |-> "StatusUpdate",
                                                    status |-> scored.status])
                         ELSE <<>>)
                        \o broadcast(scored, [type |-> "UpdatePlayerProgress",
                                              player_id |-> m.player_id,
                                              progress |-> progress]),
                        <<>>,
                        <<>>)

\* The ComputePlayerProgress arm without the check that the lobby is in
\* progress.
OnComputePlayerProgress_NoStatusGuard(m) ==
    IF m.lobby_id \notin DOMAIN lobbies THEN Skip
    ELSE LET lobby == lobbies[m.lobby_id]
             finished_player_count ==
                 Cardinality({p \in DOMAIN lobby.players : lobby.players[p].progress = One})
         IN IF m.player_id \notin DOMAIN lobby.players THEN Skip
            ELSE IF lobby.players[m.player_id].waiting THEN Skip
            ELSE IF ~from_utf8_ok(GoalFile) THEN Skip
            ELSE IF ~from_utf8_ok(m.progress) THEN Skip
            ELSE
              LET progress == normalized_levenshtein(GoalFile, m.progress)
                  scored == [lobby EXCEPT !.players[m.player_id].progress = progress]
                  won == progress = One
                  after == IF won
                           THEN [scored EXCEPT !.status = InProgress(REDUCED_LOBBY_PLAY_TIME)]
                           ELSE scored
              IN Effect(With(lobbies, m.lobby_id, after), clients,
                        (IF won
                         THEN broadcast(after, [type |-> "SendMessage", from |-> m.player_id,
                                                position |-> finished_player_count + 1])
                              \o broadcast(after, [type |-> "StatusUpdate",
                                                   status |-> after.status])
                         ELSE <<>>)
                        \o broadcast(after, [type |-> "UpdatePlayerProgress",
                                             player_id |-> m.player_id,
                                             progress |-> progress]),
                        <<>>,
                        IF won
                        THEN <<Timer(FinishMsg(m.lobby_id), REDUCED_LOBBY_PLAY_TIME)>>
                        ELSE <<>>)

\* The ComputePlayerProgress arm that announces the number of players who
\* finished before as the position.
OnComputePlayerProgress_CountOnly(m) ==
    IF m.lobby_id \notin DOMAIN lobbies THEN Skip
    ELSE LET lobby == lobbies[m.lobby_id]
             finished_player_count ==
                 Cardinality({p \in DOMAIN lobby.players : lobby.players[p].progress = One})
         IN IF m.player_id \notin DOMAIN lobby.players THEN Skip
            ELSE IF lobby.players[m.player_id].waiting THEN Skip
            ELSE IF lobby.status.tag # "InProgress" THEN Skip
            ELSE IF ~from_utf8_ok(GoalFile) THEN Skip
            ELSE IF ~from_utf8_ok(m.progress) THEN Skip
            ELSE
              LET progress == normalized_levenshtein(GoalFile, m.progress)
                  scored == [lobby EXCEPT !.players[m.player_id].progress = progress]
                  won == progress = One
                  after == IF won
                           THEN [scored EXCEPT !.status = InProgress(REDUCED_LOBBY_PLAY_TIME)]
                           ELSE scored
              IN Effect(With(lobbies, m.lobby_id, after), clients,
                        (IF won
                         THEN broadcast(after, [type |-> "SendMessage", from |-> m.player_id,
                                                position |-> finished_player_count])
                              \o broadcast(after, [type |-> "StatusUpdate",
                                                   status |-> after.status])
                         ELSE <<>>)
                        \o broadcast(after, [type |-> "UpdatePlayerProgress",
                                             player_id |-> m.player_id,
                                             progress |-> progress]),
                        <<>>,
                        IF won
                        THEN <<Timer(FinishMsg(m.lobby_id), REDUCED_LOBBY_PLAY_TIME)>>
                        ELSE <<>>)

\* AppMessage::ComputePlayerProgress
OnComputePlayerProgress(m) ==
    IF m.lobby_id \notin DOMAIN lobbies THEN Skip
    ELSE LET lobby == lobbies[m.lobby_id]
             finished_player_count ==
                 Cardinality({p \in DOMAIN lobby.players : lobby.players[p].progress = One})
         IN IF m.player_id \notin DOMAIN lobby.players THEN Skip
            ELSE IF lobby.players[m.player_id].waiting THEN Skip
            ELSE IF lobby.status.tag # "InProgress" THEN Skip
            ELSE IF ~from_utf8_ok(GoalFile) THEN Skip
            ELSE IF ~from_utf8_ok(m.progress) THEN Skip
            ELSE
              LET progress == normalized_levenshtein(GoalFile, m.progress)
                  scored == [lobby EXCEPT !.players[m.player_id].progress = progress]
                  won == progress = One
                  after == IF won
                           THEN [scored EXCEPT !.status = InProgress(REDUCED_LOBBY_PLAY_TIME)]
                           ELSE scored
              IN Effect(With(lobbies, m.lobby_id, after), clients,
                        (IF won
                         THEN broadcast(after, [type |-> "SendMessage", from |-> m.player_id,
                                                position |-> finished_player_count + 1])
                              \o broadcast(after, [type |-> "StatusUpdate",
                                                   status |-> after.status])
                         ELSE <<>>)
                        \o broadcast(after, [type |-> "UpdatePlayerProgress",
                                             player_id |-> m.player_id,
                                             progress |-> progress]),
                        <<>>,
                        IF won
                        THEN <<Timer(FinishMsg(m.lobby_id), REDUCED_LOBBY_PLAY_TIME)>>
                        ELSE <<>>)

----------------------------------------------------------------------------
(* The state machine.                                                      *)

NewConn == [lobby |-> None, joined |-> FALSE, closed |-> FALSE]

\* App::new: no lobby, no client, nothing queued and no timer task.
AppNew ==
    /\ lobbies = EmptyMap
    /\ clients = {}
    /\ queue = <<>>
    /\ timers = EmptyBag
    /\ usedIds = {}
    /\ conn = [p \in PlayerIds |-> NewConn]
    /\ cconn = [c \in AllClientIds |-> "new"]
    /\ emptyFor = EmptyMap
    /\ sinceWin = EmptyMap
    /\ view = [c \in AllClientIds |-> EmptyMap]
    /\ last = NoStep

Init == AppNew /\ eval = NoEval

RECURSIVE SeqToBag(_)
SeqToBag(s) == IF s = <<>> THEN EmptyBag ELSE SetToBag({Head(s)}) (+) SeqToBag(Tail(s))

\* The seconds each lobby of ls has been empty, after a step of the actor.
EmptyForAfter(ls) ==
    [l \in DOMAIN ls |->
        IF /\ DOMAIN ls[l].players = {}
           /\ l \in DOMAIN lobbies
           /\ DOMAIN lobbies[l].players = {}
        THEN emptyFor[l]
        ELSE 0]

\* No player has finished in the race in progress, or no race is in progress.
NoWin == -1

\* The seconds since the first player finished in the race of each lobby of
\* ls, after a step of the actor: the clock starts when a member of a lobby
\* that is InProgress reaches progress 1 and none had, and it stops when the
\* lobby leaves InProgress.
SinceWinAfter(ls) ==
    [l \in DOMAIN ls |->
        IF ls[l].status.tag # "InProgress" THEN NoWin
        ELSE IF l \in DOMAIN lobbies /\ sinceWin[l] # NoWin THEN sinceWin[l]
        ELSE IF /\ Head(queue).type = "ComputePlayerProgress"
                /\ Head(queue).lobby_id = l
                /\ ls # lobbies
                /\ ls[l].players[Head(queue).player_id].progress = One
        THEN 0
        ELSE NoWin]

\* client/src/schema/join.rs, Join::handle_message: the lobby list of a client
\* after the backend message msg.
handle_message(lobby_list, msg) ==
    CASE msg.type = "CurrentLobbies" -> msg.lobbies
      [] msg.type = "AddLobby" -> With(lobby_list, msg.id, msg.item)
      [] msg.type = "RemoveLobby" -> Without(lobby_list, msg.id)
      [] msg.type = "UpdateLobbyPlayerCount" ->
            IF msg.id \in DOMAIN lobby_list
            THEN [lobby_list EXCEPT ![msg.id].player_count = msg.player_count]
            ELSE lobby_list
      [] msg.type = "UpdateLobbyStatus" ->
            IF msg.id \in DOMAIN lobby_list
            THEN [lobby_list EXCEPT ![msg.id].status = msg.status]
            ELSE lobby_list
      [] OTHER -> lobby_list

\* The client program of connection c is running and shows its lobby list;
\* the list goes with the program when the connection is closed.
Showing(c) == cconn[c] = "open"

\* The lobby list of client c after it has handled, in the order they were
\* sent, the messages of sent that are addressed to it.
RECURSIVE Received(_, _, _)
Received(lobby_list, c, sent) ==
    IF sent = <<>> THEN lobby_list
    ELSE Received(IF Head(sent).to = ToClient(c)
                  THEN handle_message(lobby_list, Head(sent).msg)
                  ELSE lobby_list,
                  c, Tail(sent))

\* One iteration of the loop of handle_app_message: the message at the head
\* of the queue is received and handled to completion, with effect e.
Handle(type, e) ==
    /\ queue # <<>>
    /\ Head(queue).type = type
    /\ lobbies' = e.lobbies
    /\ clients' = e.clients
    /\ queue' = Tail(queue) \o e.enq
    /\ timers' = timers (+) SeqToBag(e.armed)
    /\ usedIds' = usedIds \cup DOMAIN e.lobbies
    /\ emptyFor' = EmptyForAfter(e.lobbies)
    /\ sinceWin' = SinceWinAfter(e.lobbies)
    /\ last' = [msg |-> Head(queue),
                pre |-> [lobbies |-> lobbies, clients |-> clients, emptyFor |-> emptyFor],
                sent |-> e.sent, enq |-> e.enq, armed |-> e.armed]
    /\ view' = [c \in DOMAIN view |->
                   IF Showing(c) THEN Received(view[c], c, e.sent) ELSE EmptyMap]
    /\ UNCHANGED <<conn, cconn, eval>>

\* The arm of ProvideLobbyInformation, a new lobby's Uuid being drawn from ids.
ProvideLobbyInformationFrom(ids) ==
    /\ queue # <<>>
    /\ \E fresh \in (ids \ usedIds) \cup {None} :
        /\ Head(queue).type = "ProvideLobbyInformation"
        /\ (fresh # None) <=> Creates(Head(queue).join_mode)
        /\ Handle("ProvideLobbyInformation", OnProvideLobbyInformation(Head(queue), fresh))
HandleProvideLobbyInformation == ProvideLobbyInformationFrom(LobbyIds)
HandleAddPlayerToLobby == Handle("AddPlayerToLobby", OnAddPlayerToLobby(Head(queue)))
HandleRemovePlayer == Handle("RemovePlayer", OnRemovePlayer(Head(queue)))
HandleSendMessage == Handle("SendMessage", OnSendMessage(Head(queue)))
HandleLobbyFull == Handle("LobbyFull", OnLobbyFull(Head(queue)))
HandleLobbyNotWaitingForPlayers ==
    Handle("LobbyNotWaitingForPlayers", OnLobbyNotWaitingForPlayers(Head(queue)))
HandleCurrentLobbies == Handle("CurrentLobbies", OnCurrentLobbies(Head(queue)))
HandleAddLobby == Handle("AddLobby", OnAddLobby(Head(queue)))
HandleRemoveLobby == Handle("RemoveLobby", OnRemoveLobby(Head(queue)))
HandleAddClient == Handle("AddClient", OnAddClient(Head(queue)))
HandleRemoveClient == Handle("RemoveClient", OnRemoveClient(Head(queue)))
HandleSendConnectionCounts ==
    Handle("SendConnectionCounts", OnSendConnectionCounts(Head(queue)))
HandleRequestStart == Handle("RequestStart", OnRequestStart(Head(queue)))
HandleStart == Handle("Start", OnStart(Head(queue)))
HandleSendLobbyPlayerCountUpdate ==
    Handle("SendLobbyPlayerCountUpdate", OnSendLobbyPlayerCountUpdate(Head(queue)))
HandleSendLobbyStatusUpdate ==
    Handle("SendLobbyStatusUpdate", OnSendLobbyStatusUpdate(Head(queue)))
HandleFinish == Handle("Finish", OnFinish(Head(queue)))
HandleReset == Handle("Reset", OnReset(Head(queue)))
HandleComputePlayerProgress ==
    Handle("ComputePlayerProgress", OnComputePlayerProgress(Head(queue)))

(* Producers of the inbound queue.                                         *)

\* Message types whose handling can spawn a timer task.
ArmingTypes == {"RequestStart", "ComputePlayerProgress", "RemovePlayer", "Start", "Finish"}
IsArming(m) == m.type \in ArmingTypes
IsCreating(m) ==
    m.type = "ProvideLobbyInformation" /\ m.join_mode \in {"Create", "Quickplay"}

\* The bounds on what connection tasks put into the queue.
QueueRoom == Len(queue) < MaxQueue
TimerRoom ==
    BagCardinality(timers) + Cardinality({i \in 1..Len(queue) : IsArming(queue[i])})
        < MaxTimers
LobbyRoom ==
    Cardinality(usedIds) + Cardinality({i \in 1..Len(queue) : IsCreating(queue[i])})
        < MaxLobbies

\* A producer sends msgs into the queue; the actor takes no step.
Produce(msgs) ==
    /\ queue' = queue \o msgs
    /\ last' = NoStep
    /\ UNCHANGED <<lobbies, clients, timers, usedIds, emptyFor, sinceWin, eval, view>>

\* routes/lobbies.rs, lobby_information: the lookup of a lobby by join mode.
RequestLobbyInformation ==
    /\ QueueRoom
    /\ \E mode \in {"Quickplay", "Create", "Join"} :
       \E l \in (IF mode = "Join" THEN LobbyIds ELSE {None}) :
        /\ mode # "Join" => LobbyRoom
        /\ Produce(<<ProvideLobbyInformationMsg(mode, l)>>)
    /\ UNCHANGED <<conn, cconn>>

\* routes/players.rs, handle_join: the handler sends AddPlayerToLobby.
PlayerJoin(p, l) ==
    /\ QueueRoom
    /\ ~conn[p].joined
    /\ conn' = [conn EXCEPT ![p].lobby = l, ![p].joined = TRUE]
    /\ Produce(<<AddPlayerToLobbyMsg(l, p)>>)
    /\ UNCHANGED cconn

\* The reader task of an open connection is waiting for the next frame.
Reading(p) == conn[p].joined /\ ~conn[p].closed

\* routes/players.rs, receive_and_handle_client_message: the socket closes and
\* the reader task sends RemovePlayer.
SendRemovePlayer(p) ==
    /\ Reading(p)
    /\ conn' = [conn EXCEPT ![p].closed = TRUE]
    /\ Produce(<<RemovePlayerMsg(p, conn[p].lobby)>>)
    /\ UNCHANGED cconn

PlayerClose(p) == QueueRoom /\ TimerRoom /\ SendRemovePlayer(p)

\* The reader task of p receives a request to start the lobby.
SendRequestStart(p) ==
    /\ Reading(p)
    /\ Produce(<<RequestStartMsg(p, conn[p].lobby)>>)
    /\ UNCHANGED <<conn, cconn>>

PlayerRequestStart(p) == QueueRoom /\ TimerRoom /\ SendRequestStart(p)

\* The reader task of p receives the bytes of the player's file.
SendProgress(p, bytes) ==
    /\ Reading(p)
    /\ Produce(<<ComputePlayerProgressMsg(conn[p].lobby, p, bytes)>>)
    /\ UNCHANGED <<conn, cconn>>

PlayerProgress(p, bytes) == QueueRoom /\ TimerRoom /\ SendProgress(p, bytes)

PlayerSendMessage(p) ==
    /\ QueueRoom
    /\ Reading(p)
    /\ Produce(<<SendMessageMsg(p, conn[p].lobby)>>)
    /\ UNCHANGED <<conn, cconn>>

\* routes/clients.rs, handle_connection: a client registers and asks for the
\* lobby list.
ClientConnect(c) ==
    /\ QueueRoom
    /\ cconn[c] = "new"
    /\ cconn' = [cconn EXCEPT ![c] = "open"]
    /\ Produce(<<AddClientMsg(c), CurrentLobbiesMsg(c)>>)
    /\ UNCHANGED conn

\* routes/clients.rs, handle_connection: the client's socket closes and the
\* reader task sends RemoveClient.
SendRemoveClient(c) ==
    /\ cconn[c] = "open"
    /\ cconn' = [cconn EXCEPT ![c] = "closed"]
    /\ Produce(<<RemoveClientMsg(c)>>)
    /\ UNCHANGED conn

ClientClose(c) == QueueRoom /\ SendRemoveClient(c)

(* Timer tasks.                                                            *)

\* tokio::time::sleep has elapsed: the task sends its message and ends.
Fire ==
    \E t \in DOMAIN timers :
        /\ t.rem = 0
        /\ queue' = Append(queue, t.msg)
        /\ timers' = timers (-) SetToBag({t})
        /\ last' = NoStep
        /\ UNCHANGED <<lobbies, clients, usedIds, conn, cconn, emptyFor, sinceWin, eval,
                       view>>

\* The seconds that pass in one step of time: TimeStep, or less when a timer
\* task wakes up earlier.
Elapsed == Min({TimeStep} \cup {t.rem : t \in DOMAIN timers})

\* The timers after Elapsed seconds.
TickTimers(B) ==
    LET dec(t) == [t EXCEPT !.rem = Monus(t.rem, Elapsed)]
        S == {dec(t) : t \in DOMAIN B}
    IN [u \in S |-> BagCardinality([t \in {x \in DOMAIN B : dec(x) = u} |-> B[t]])]

\* The lobbies after Elapsed seconds: the deadlines are closer.
TickLobbies(ls) ==
    [l \in DOMAIN ls |->
        [ls[l] EXCEPT !.status.deadline = Monus(ls[l].status.deadline, Elapsed)]]

\* Elapsed seconds pass. A due timer task sends before time passes on, and
\* the actor loop handles what is queued before time passes on.
Tick ==
    /\ queue = <<>>
    /\ \A t \in DOMAIN timers : t.rem > 0
    /\ timers' = TickTimers(timers)
    /\ lobbies' = TickLobbies(lobbies)
    /\ emptyFor' = [l \in DOMAIN lobbies |->
                       IF DOMAIN lobbies[l].players = {}
                       THEN Min({emptyFor[l] + Elapsed, EMPTY_LOBBY_LIFETIME})
                       ELSE 0]
    /\ sinceWin' = [l \in DOMAIN lobbies |->
                       IF sinceWin[l] = NoWin THEN NoWin
                       ELSE Min({sinceWin[l] + Elapsed, MAX_LOBBY_PLAY_TIME})]
    /\ view' = [c \in DOMAIN view |->
                   IF Showing(c) THEN TickLobbies(view[c]) ELSE EmptyMap]
    /\ last' = NoStep
    /\ UNCHANGED <<clients, queue, usedIds, conn, cconn, eval>>

\* The actor loop, the timer tasks and the player connections.
Next ==
    \/ HandleProvideLobbyInformation
    \/ HandleAddPlayerToLobby
    \/ HandleRemovePlayer
    \/ HandleLobbyFull
    \/ HandleLobbyNotWaitingForPlayers
    \/ HandleAddLobby
    \/ HandleRemoveLobby
    \/ HandleSendConnectionCounts
    \/ HandleRequestStart
    \/ HandleStart
    \/ HandleSendLobbyPlayerCountUpdate
    \/ HandleSendLobbyStatusUpdate
    \/ HandleFinish
    \/ HandleReset
    \/ HandleComputePlayerProgress
    \/ RequestLobbyInformation
    \/ \E p \in PlayerIds, l \in LobbyIds : PlayerJoin(p, l)
    \/ \E p \in PlayerIds : PlayerClose(p)
    \/ \E p \in PlayerIds : PlayerRequestStart(p)
    \/ \E p \in PlayerIds, bytes \in Submissions : PlayerProgress(p, bytes)
    \/ Fire
    \/ Tick

Spec == Init /\ [][Next]_vars

(* The start countdown under fair scheduling.                              *)

\* The players of the countdown scenario: an owner and one who joins later.
CountdownPlayers == {1, 2}
\* Room for one timer task more than in Spec: the Reset timer of the last
\* race, the removal timer of an emptied lobby and the Start timer of a new
\* countdown can be asleep at the same time.
CountdownTimerRoom ==
    BagCardinality(timers) + Cardinality({i \in 1..Len(queue) : IsArming(queue[i])})
        < MaxTimers + 1

\* One iteration of the actor loop, whatever the message.
Actor ==
    \/ HandleProvideLobbyInformation
    \/ HandleAddPlayerToLobby
    \/ HandleRemovePlayer
    \/ HandleLobbyNotWaitingForPlayers
    \/ HandleAddLobby
    \/ HandleRemoveLobby
    \/ HandleSendConnectionCounts
    \/ HandleRequestStart
    \/ HandleStart
    \/ HandleSendLobbyPlayerCountUpdate
    \/ HandleSendLobbyStatusUpdate
    \/ HandleFinish
    \/ HandleReset

CountdownClose(p) == QueueRoom /\ CountdownTimerRoom /\ SendRemovePlayer(p)
CountdownRequestStart(p) == QueueRoom /\ CountdownTimerRoom /\ SendRequestStart(p)

\* The actor loop, the timer tasks and two players who join, request the
\* start and leave; no progress is submitted, so every race runs its full
\* time.
CountdownNext ==
    \/ Actor
    \/ RequestLobbyInformation
    \/ \E p \in CountdownPlayers, l \in LobbyIds : PlayerJoin(p, l)
    \/ \E p \in CountdownPlayers : CountdownClose(p)
    \/ \E p \in CountdownPlayers : CountdownRequestStart(p)
    \/ Fire
    \/ Tick

\* The actor task is scheduled while a message waits, a timer task sends once
\* its sleep has elapsed, and time passes however often the players act.
CountdownSpec ==
    /\ Init
    /\ [][CountdownNext]_vars
    /\ WF_vars(Actor)
    /\ WF_vars(Fire)
    /\ SF_vars(Tick)

(* A race of two players.                                                  *)

RaceProgress(p, bytes) == QueueRoom /\ CountdownTimerRoom /\ SendProgress(p, bytes)

\* The countdown scenario with progress submissions: both players can finish
\* while the Finish timer of the race is still asleep.
RaceNext ==
    \/ CountdownNext
    \/ HandleComputePlayerProgress
    \/ \E p \in CountdownPlayers, bytes \in Submissions : RaceProgress(p, bytes)

RaceSpec == Init /\ [][RaceNext]_vars

(* A race that the players only watch.                                     *)

\* No lobby is InProgress: no race is running.
NoRace == \A l \in DOMAIN lobbies : lobbies[l].status.tag # "InProgress"

QuietLobbyInformation == NoRace /\ RequestLobbyInformation
QuietJoin(p, l) == NoRace /\ PlayerJoin(p, l)
QuietClose(p) == NoRace /\ CountdownClose(p)
QuietRequestStart(p) == NoRace /\ CountdownRequestStart(p)

\* The countdown scenario with players who send nothing and do not leave
\* while a race is running: from Start to Finish only the actor loop and the
\* timer tasks act.
QuietNext ==
    \/ Actor
    \/ QuietLobbyInformation
    \/ \E p \in CountdownPlayers, l \in LobbyIds : QuietJoin(p, l)
    \/ \E p \in CountdownPlayers : QuietClose(p)
    \/ \E p \in CountdownPlayers : QuietRequestStart(p)
    \/ Fire
    \/ Tick

\* Fair as CountdownSpec: the actor task and the timer tasks are scheduled,
\* and time passes.
QuietSpec ==
    /\ Init
    /\ [][QuietNext]_vars
    /\ WF_vars(Actor)
    /\ WF_vars(Fire)
    /\ SF_vars(Tick)

(* Connections that close while they are set up.                           *)

\* routes/players.rs, handle_join: the reader task is spawned before the
\* handler sends AddPlayerToLobby. The socket is closed already, the reader
\* task runs first and sends RemovePlayer.
EarlyClose(p, l) ==
    /\ QueueRoom
    /\ CountdownTimerRoom
    /\ ~conn[p].joined
    /\ ~conn[p].closed
    /\ conn' = [conn EXCEPT ![p].lobby = l, ![p].closed = TRUE]
    /\ Produce(<<RemovePlayerMsg(p, l)>>)
    /\ UNCHANGED cconn

\* routes/players.rs, handle_join: the handler sends AddPlayerToLobby after
\* the reader task has ended.
LateJoin(p) ==
    /\ QueueRoom
    /\ ~conn[p].joined
    /\ conn[p].closed
    /\ conn' = [conn EXCEPT ![p].joined = TRUE]
    /\ Produce(<<AddPlayerToLobbyMsg(conn[p].lobby, p)>>)
    /\ UNCHANGED cconn

\* routes/players.rs, handle_join: the handler sends AddPlayerToLobby before
\* the reader task has seen the end of the stream.
TeardownJoin(p, l) == ~conn[p].closed /\ PlayerJoin(p, l)

\* The countdown scenario with the two orders in which the tasks of a new
\* connection can send their first message.
TeardownNext ==
    \/ Actor
    \/ RequestLobbyInformation
    \/ \E p \in CountdownPlayers, l \in LobbyIds : TeardownJoin(p, l)
    \/ \E p \in CountdownPlayers, l \in LobbyIds : EarlyClose(p, l)
    \/ \E p \in CountdownPlayers : LateJoin(p)
    \/ \E p \in CountdownPlayers : CountdownClose(p)
    \/ \E p \in CountdownPlayers : CountdownRequestStart(p)
    \/ Fire
    \/ Tick

TeardownSpec == Init /\ [][TeardownNext]_vars

(* A race watched by a client of the lobby list.                           *)

\* The race of two players, and the connections that watch the lobby list.
ListNext ==
    \/ RaceNext
    \/ HandleAddClient
    \/ HandleCurrentLobbies
    \/ HandleRemoveClient
    \/ \E c \in ClientIds : ClientConnect(c)
    \/ \E c \in ClientIds : ClientClose(c)

ListSpec == Init /\ [][ListNext]_vars

(* The race with the lobby list and the chat: every kind of message that   *)
(* names a lobby, a player or a client is sent and handled.                *)
ChatNext ==
    \/ ListNext
    \/ HandleSendMessage
    \/ \E p \in CountdownPlayers : PlayerSendMessage(p)

ChatSpec == Init /\ [][ChatNext]_vars

(* The broadcasts while connections come and go: two players, two clients  *)
(* and one lobby, no race. A connection may end while the actor loop still *)
(* has a message to handle before the removal of its player or client.     *)
BroadcastQueueRoom == Len(queue) < MaxQueue + 1

BroadcastPlayerClose(p) == BroadcastQueueRoom /\ TimerRoom /\ SendRemovePlayer(p)
BroadcastClientClose(c) == BroadcastQueueRoom /\ SendRemoveClient(c)

BroadcastNext ==
    \/ HandleProvideLobbyInformation
    \/ HandleAddLobby
    \/ HandleAddPlayerToLobby
    \/ HandleRemovePlayer
    \/ HandleRemoveLobby
    \/ HandleSendConnectionCounts
    \/ HandleSendLobbyPlayerCountUpdate
    \/ HandleSendLobbyStatusUpdate
    \/ HandleAddClient
    \/ HandleCurrentLobbies
    \/ HandleRemoveClient
    \/ RequestLobbyInformation
    \/ \E p \in CountdownPlayers, l \in LobbyIds : PlayerJoin(p, l)
    \/ \E p \in CountdownPlayers : BroadcastPlayerClose(p)
    \/ \E c \in AllClientIds : ClientConnect(c)
    \/ \E c \in AllClientIds : BroadcastClientClose(c)
    \/ Fire
    \/ Tick

BroadcastSpec == Init /\ [][BroadcastNext]_vars

(* Matchmaking: several lobbies side by side, filled by players who look   *)
(* one up by Quickplay or Create and then join it. No race is started and  *)
(* nobody leaves, so no timer task is ever spawned.                        *)
MatchLobbyIds == 1..(MaxLobbies + 3)

MatchLobbyRoom ==
    Cardinality(usedIds) + Cardinality({i \in 1..Len(queue) : IsCreating(queue[i])})
        < MaxLobbies + 3

\* routes/lobbies.rs, lobby_information, by Quickplay or Create.
MatchRequest ==
    /\ QueueRoom
    /\ MatchLobbyRoom
    /\ \E mode \in {"Quickplay", "Create"} :
        Produce(<<ProvideLobbyInformationMsg(mode, None)>>)
    /\ UNCHANGED <<conn, cconn>>

MatchNext ==
    \/ ProvideLobbyInformationFrom(MatchLobbyIds)
    \/ HandleAddLobby
    \/ HandleAddPlayerToLobby
    \/ HandleLobbyFull
    \/ HandleSendLobbyPlayerCountUpdate
    \/ HandleSendConnectionCounts
    \/ MatchRequest
    \/ \E p \in PlayerIds, l \in MatchLobbyIds : PlayerJoin(p, l)

MatchSpec == Init /\ [][MatchNext]_vars

(* Matchmaking with lookups by id.                                         *)

\* routes/lobbies.rs, lobby_information, by Join with any id.
MatchJoinRequest ==
    /\ QueueRoom
    /\ \E l \in MatchLobbyIds : Produce(<<ProvideLobbyInformationMsg("Join", l)>>)
    /\ UNCHANGED <<conn, cconn>>

\* Matchmaking in which lobbies are also looked up by their id, registered or
\* not.
LookupNext ==
    \/ MatchNext
    \/ MatchJoinRequest

LookupSpec == Init /\ [][LookupNext]_vars

(* Quickplay next to a lobby that starts and runs races.                   *)

\* One lobby id more than in the countdown scenario: a lobby can be created
\* after the first one was removed.
QuickLobbyIds == 1..(MaxLobbies + 1)

QuickLobbyRoom ==
    Cardinality(usedIds) + Cardinality({i \in 1..Len(queue) : IsCreating(queue[i])})
        < MaxLobbies + 1

\* routes/lobbies.rs, lobby_information, by Quickplay.
QuickplayRequest ==
    /\ QueueRoom
    /\ QuickLobbyRoom
    /\ Produce(<<ProvideLobbyInformationMsg("Quickplay", None)>>)
    /\ UNCHANGED <<conn, cconn>>

\* The countdown scenario with lookups by Quickplay at any time: while the
\* lobby is waiting, about to start, in progress or finished.
QuickplayNext ==
    \/ Actor
    \/ ProvideLobbyInformationFrom(QuickLobbyIds)
    \/ QuickplayRequest
    \/ \E p \in CountdownPlayers, l \in QuickLobbyIds : PlayerJoin(p, l)
    \/ \E p \in CountdownPlayers : CountdownClose(p)
    \/ \E p \in CountdownPlayers : CountdownRequestStart(p)
    \/ Fire
    \/ Tick

QuickplaySpec == Init /\ [][QuickplayNext]_vars

(* The progress evaluator on its own: normalized_levenshtein applied to a  *)
(* goal text and to one submission after another, all of them drawn from   *)
(* the texts over a small alphabet.                                        *)
MaxLen == 3
Alphabet == {1, 2}
Texts == UNION {[1..n -> Alphabet] : n \in 0..MaxLen}

\* No submission was scored before the current one.
NoSubmission == [scored |-> FALSE]

EvalInit ==
    /\ AppNew
    /\ \E g \in Texts, s \in Texts :
        eval = [goal_file |-> g, player_file |-> s, scored |-> FALSE,
                before |-> NoSubmission]

\* let progress = normalized_levenshtein(goal_file, player_file)
Score ==
    /\ "goal_file" \in DOMAIN eval
    /\ ~eval.scored
    /\ eval' = [goal_file |-> eval.goal_file, player_file |-> eval.player_file,
                scored |-> TRUE,
                progress |-> normalized_levenshtein(eval.goal_file, eval.player_file),
                before |-> eval.before]
    /\ UNCHANGED <<lobbies, clients, queue, timers, usedIds, conn, cconn, emptyFor,
                   sinceWin, view, last>>

\* The player submits the text s after a scored submission.
Resubmit(s) ==
    /\ "goal_file" \in DOMAIN eval
    /\ eval.scored
    /\ ~eval.before.scored
    /\ eval' = [goal_file |-> eval.goal_file, player_file |-> s, scored |-> FALSE,
                before |-> [scored |-> TRUE, player_file |-> eval.player_file,
                            progress |-> eval.progress]]
    /\ UNCHANGED <<lobbies, clients, queue, timers, usedIds, conn, cconn, emptyFor,
                   sinceWin, view, last>>

EvalNext == Score \/ \E s \in Texts : Resubmit(s)

EvalSpec == EvalInit /\ [][EvalNext]_vars

----------------------------------------------------------------------------
(* Properties.                                                             *)

\* The actor has just handled a message of this type.
Handled(type) == last.msg.type = type
\* It was addressed to lobby l, which was in the registry.
HandledIn(type, l) ==
    Handled(type) /\ last.msg.lobby_id = l /\ l \in DOMAIN last.pre.lobbies
\* The lobby l before that message was handled.
PreLobby(l) == last.pre.lobbies[l]
PreCount(l) == Cardinality(DOMAIN PreLobby(l).players)
\* Handling the message changed neither the registry nor sent anything to an
\* outbound channel, to the inbound queue or to a timer task.
NoOp ==
    /\ lobbies = last.pre.lobbies
    /\ clients = last.pre.clients
    /\ last.sent = <<>>
    /\ last.enq = <<>>
    /\ last.armed = <<>>

\* C1: every lobby of the registry holds at most MAX_LOBBY_SIZE players.
C1_Capacity == \A l \in DOMAIN lobbies : Count(l) <= MAX_LOBBY_SIZE

\* C1 witness: a player was sent to a lobby that already held MAX_LOBBY_SIZE
\* players.
C1_Witness ==
    \E l \in LobbyIds :
        /\ HandledIn("AddPlayerToLobby", l)
        /\ PreCount(l) = MAX_LOBBY_SIZE
        /\ Count(l) = MAX_LOBBY_SIZE

\* C2: a lobby with players has an owner who is one of them, and a lobby
\* without players has no owner.
C2_Owner ==
    \A l \in DOMAIN lobbies :
        IF DOMAIN lobbies[l].players # {}
        THEN lobbies[l].owner # None /\ lobbies[l].owner \in DOMAIN lobbies[l].players
        ELSE lobbies[l].owner = None

\* C2 witness: the owner was removed from a lobby in which a player remains.
C2_Witness ==
    \E l \in LobbyIds :
        /\ HandledIn("RemovePlayer", l)
        /\ l \in DOMAIN lobbies
        /\ PreLobby(l).owner = last.msg.player
        /\ DOMAIN lobbies[l].players # {}

\* The status variants of lobby l before and after a step, when it changed.
TagChange(l) == <<lobbies[l].status.tag, lobbies'[l].status.tag>>
TagChanged(l) ==
    /\ l \in DOMAIN lobbies /\ l \in DOMAIN lobbies'
    /\ lobbies[l].status.tag # lobbies'[l].status.tag
\* The steps of the cycle of a race.
Cycle ==
    {<<"WaitingForPlayers", "AboutToStart">>, <<"AboutToStart", "InProgress">>,
     <<"InProgress", "Finish">>, <<"Finish", "WaitingForPlayers">>}

C4_StaleStart ==
    \A l \in LobbyIds :
        HandledIn("Start", l) /\ PreLobby(l).status.tag # "AboutToStart" => NoOp

\* C4 witness: a Start message was handled for a lobby that was back in
\* WaitingForPlayers and had a player.
C4_Witness ==
    \E l \in LobbyIds :
        /\ HandledIn("Start", l)
        /\ PreLobby(l).status = WaitingForPlayers
        /\ PreCount(l) > 0

\* C5 as stated: a Reset message for a lobby that is not in Finish changes
\* neither its status nor any player's progress and broadcasts nothing.
C5_ResetGuarded ==
    \A l \in LobbyIds :
        HandledIn("Reset", l) /\ PreLobby(l).status.tag # "Finish" =>
            /\ lobbies[l].status = PreLobby(l).status
            /\ lobbies[l].players = PreLobby(l).players
            /\ last.sent = <<>>

\* C6 as stated: a Finish message of a superseded timer changes no status and
\* broadcasts nothing. The timer armed last for a race is due at the deadline
\* of the status, so a Finish message handled while the deadline of an
\* InProgress status is still ahead is a superseded one.
C6_SupersededFinish ==
    \A l \in LobbyIds :
        /\ HandledIn("Finish", l)
        /\ PreLobby(l).status.tag = "InProgress"
        /\ PreLobby(l).status.deadline > 0
        => /\ lobbies[l].status = PreLobby(l).status
           /\ last.sent = <<>>

\* C7: a lobby leaves the registry only when a RemoveLobby message for it is
\* handled and finds it without players; a RemoveLobby message for a lobby
\* with players changes nothing.
C7_RemoveOnlyEmpty ==
    [][/\ \A l \in DOMAIN lobbies \ DOMAIN lobbies' :
            /\ queue # <<>> /\ Head(queue) = RemoveLobbyMsg(l)
            /\ DOMAIN lobbies[l].players = {}
       /\ \A l \in DOMAIN lobbies :
            /\ last'.msg = RemoveLobbyMsg(l)
            /\ DOMAIN lobbies[l].players # {}
            => /\ lobbies' = lobbies
               /\ clients' = clients
               /\ last'.sent = <<>>]_vars

\* C7 witness: a RemoveLobby message was handled for a lobby that a player
\* had joined again, and the lobby and the player are still there.
C7_Witness ==
    \E l \in DOMAIN lobbies :
        /\ HandledIn("RemoveLobby", l)
        /\ PreCount(l) > 0
        /\ lobbies[l] = PreLobby(l)

\* C8 as stated: a lobby that leaves the registry has been empty for at
\* least EMPTY_LOBBY_LIFETIME without interruption.
C8_GracePeriod ==
    \A l \in LobbyIds :
        HandledIn("RemoveLobby", l) /\ l \notin DOMAIN lobbies =>
            last.pre.emptyFor[l] >= EMPTY_LOBBY_LIFETIME

\* C9: AddPlayerToLobby for a lobby with MAX_LOBBY_SIZE players changes
\* nothing, sends nothing to a player and queues LobbyFull for the candidate,
\* whatever the status; handling LobbyFull sends the LobbyFull notification
\* to the candidate's channel.
C9_LobbyFull ==
    /\ \A l \in LobbyIds :
        HandledIn("AddPlayerToLobby", l) /\ PreCount(l) >= MAX_LOBBY_SIZE =>
            /\ lobbies = last.pre.lobbies
            /\ last.sent = <<>>
            /\ last.enq = <<LobbyFullMsg(last.msg.player)>>
            /\ last.armed = <<>>
    /\ Handled("LobbyFull") =>
            /\ lobbies = last.pre.lobbies
            /\ last.sent = <<Send(ToPlayer(last.msg.player_tx), [type |-> "LobbyFull"])>>

\* C9 witness: a player was sent to a full lobby that was not waiting for
\* players.
C9_Witness ==
    \E l \in LobbyIds :
        /\ HandledIn("AddPlayerToLobby", l)
        /\ PreCount(l) >= MAX_LOBBY_SIZE
        /\ PreLobby(l).status # WaitingForPlayers

\* C10: AddPlayerToLobby for a lobby that is not full and not
\* WaitingForPlayers changes nothing, sends nothing to a player and queues
\* LobbyNotWaitingForPlayers for the candidate, which is then sent to the
\* candidate's channel; a lobby gains a player only while WaitingForPlayers.
C10_NotWaiting ==
    /\ \A l \in LobbyIds :
        /\ HandledIn("AddPlayerToLobby", l)
        /\ PreCount(l) < MAX_LOBBY_SIZE
        /\ PreLobby(l).status # WaitingForPlayers
        => /\ lobbies = last.pre.lobbies
           /\ last.sent = <<>>
           /\ last.enq = <<LobbyNotWaitingForPlayersMsg(last.msg.player)>>
           /\ last.armed = <<>>
    /\ Handled("LobbyNotWaitingForPlayers") =>
            /\ lobbies = last.pre.lobbies
            /\ last.sent = <<Send(ToPlayer(last.msg.player_tx),
                                  [type |-> "LobbyNotWaitingForPlayers"])>>
    /\ \A l \in DOMAIN lobbies :
        /\ ~Handled("None")
        /\ l \in DOMAIN last.pre.lobbies
        /\ DOMAIN lobbies[l].players \ DOMAIN PreLobby(l).players # {}
        => PreLobby(l).status = WaitingForPlayers

\* C10 witness: a player was sent to a lobby with a free seat whose race was
\* in progress.
C10_Witness ==
    \E l \in LobbyIds :
        /\ HandledIn("AddPlayerToLobby", l)
        /\ PreCount(l) < MAX_LOBBY_SIZE
        /\ PreLobby(l).status.tag = "InProgress"

\* The message msg was sent to the channel to while the last message was
\* handled.
WasSent(to, msg) == \E i \in 1..Len(last.sent) : last.sent[i] = Send(to, msg)

\* C11: when RemovePlayer removes the owner of a lobby and members remain,
\* the new owner is the remaining member with the smallest id, and
\* AssignOwner with that id is sent to every remaining member.
C11_SmallestId ==
    \A l \in DOMAIN lobbies :
        /\ HandledIn("RemovePlayer", l)
        /\ PreLobby(l).owner = last.msg.player
        /\ DOMAIN lobbies[l].players # {}
        => /\ lobbies[l].owner \in DOMAIN lobbies[l].players
           /\ \A q \in DOMAIN lobbies[l].players :
                /\ lobbies[l].owner <= q
                /\ WasSent(ToPlayer(q), [type |-> "AssignOwner", id |-> lobbies[l].owner])

\* C11 witness: the owner left a lobby of three; of the two who remain, one
\* has a smaller and one a larger id than the old owner.
C11_Witness ==
    \E l \in DOMAIN lobbies :
        /\ HandledIn("RemovePlayer", l)
        /\ PreLobby(l).owner = last.msg.player
        /\ PreCount(l) = 3
        /\ \E a, b \in DOMAIN lobbies[l].players :
              a < last.msg.player /\ last.msg.player < b /\ lobbies[l].owner = a

\* C12: RequestStart makes the lobby AboutToStart, due LOBBY_START_TIMER from
\* now, and arms exactly one Start timer if the requester is the owner and the
\* status is WaitingForPlayers; in every other case it changes nothing, sends
\* nothing and arms nothing.
C12_RequestStart ==
    \A l \in LobbyIds :
        HandledIn("RequestStart", l) =>
            IF /\ PreLobby(l).owner = last.msg.player
               /\ PreLobby(l).status = WaitingForPlayers
            THEN /\ lobbies = With(last.pre.lobbies, l,
                        [PreLobby(l) EXCEPT !.status = AboutToStart(LOBBY_START_TIMER)])
                 /\ last.armed = <<Timer(StartMsg(l), LOBBY_START_TIMER)>>
            ELSE NoOp

\* C12 witness: a member who is not the owner requested the start of a lobby
\* that was WaitingForPlayers.
C12_Witness ==
    \E l \in LobbyIds :
        /\ HandledIn("RequestStart", l)
        /\ last.msg.player \in DOMAIN PreLobby(l).players
        /\ PreLobby(l).owner # last.msg.player
        /\ PreLobby(l).status = WaitingForPlayers

\* C13 as stated: a lobby that is AboutToStart becomes InProgress, unless it
\* loses all its players first.
C13_CountdownEnds ==
    \A l \in LobbyIds :
        (l \in DOMAIN lobbies /\ lobbies[l].status.tag = "AboutToStart")
            ~> \/ l \notin DOMAIN lobbies
               \/ DOMAIN lobbies[l].players = {}
               \/ lobbies[l].status.tag = "InProgress"

\* The members of lobby l who have finished.
Finishers(lobby) == {p \in DOMAIN lobby.players : lobby.players[p].progress = One}

\* C14: the goal file submitted by a member of a lobby that is InProgress
\* gives the member progress 1, sends a placement announcement, a
\* StatusUpdate and an UpdatePlayerProgress to every member, makes the status
\* InProgress due REDUCED_LOBBY_PLAY_TIME from now and arms a Finish timer of
\* REDUCED_LOBBY_PLAY_TIME; and no lobby is InProgress more than
\* REDUCED_LOBBY_PLAY_TIME after the first player finished.
C14_ReducedPlayTime ==
    /\ \A l \in LobbyIds :
        /\ HandledIn("ComputePlayerProgress", l)
        /\ PreLobby(l).status.tag = "InProgress"
        /\ last.msg.player_id \in DOMAIN PreLobby(l).players
        /\ ~PreLobby(l).players[last.msg.player_id].waiting
        /\ last.msg.progress = GoalFile
        => /\ lobbies[l].players[last.msg.player_id].progress = One
           /\ lobbies[l].status = InProgress(REDUCED_LOBBY_PLAY_TIME)
           /\ last.armed = <<Timer(FinishMsg(l), REDUCED_LOBBY_PLAY_TIME)>>
           /\ \A q \in DOMAIN lobbies[l].players :
                /\ WasSent(ToPlayer(q),
                           [type |-> "SendMessage", from |-> last.msg.player_id,
                            position |-> Cardinality(Finishers(PreLobby(l))) + 1])
                /\ WasSent(ToPlayer(q),
                           [type |-> "StatusUpdate", status |-> lobbies[l].status])
                /\ WasSent(ToPlayer(q),
                           [type |-> "UpdatePlayerProgress",
                            player_id |-> last.msg.player_id, progress |-> One])
    /\ \A l \in DOMAIN lobbies : sinceWin[l] <= REDUCED_LOBBY_PLAY_TIME

\* C14 witness: a second member finished while the Finish timer of the first
\* finisher was asleep, and time has passed since the first one finished.
C14_Witness ==
    \E l \in DOMAIN lobbies :
        /\ HandledIn("ComputePlayerProgress", l)
        /\ last.msg.progress = GoalFile
        /\ Finishers(PreLobby(l)) # {}
        /\ last.msg.player_id \notin Finishers(PreLobby(l))
        /\ Cardinality(Finishers(lobbies[l])) = 2
        /\ sinceWin[l] > 0

\* C15 as stated, without the order: a handled message that changes the
\* status of a lobby (variant or deadline) sends StatusUpdate with the new
\* status to every seated player, and UpdateLobbyStatus with the new status
\* goes to every registered client: it is sent at once, or the
\* SendLobbyStatusUpdate message that sends it is queued.
C15_BothBroadcasts ==
    \A l \in DOMAIN lobbies :
        /\ ~Handled("None")
        /\ l \in DOMAIN last.pre.lobbies
        /\ lobbies[l].status # PreLobby(l).status
        => /\ \A q \in DOMAIN lobbies[l].players :
                WasSent(ToPlayer(q),
                        [type |-> "StatusUpdate", status |-> lobbies[l].status])
           /\ \/ \A c \in clients :
                    WasSent(ToClient(c),
                            [type |-> "UpdateLobbyStatus", id |-> l,
                             status |-> lobbies[l].status])
              \/ \E i \in 1..Len(last.enq) : last.enq[i] = SendLobbyStatusUpdateMsg(l)


\* The lobbies a Quickplay lookup may return: those with a free seat.
OpenBefore == {l \in DOMAIN last.pre.lobbies : PreCount(l) < MAX_LOBBY_SIZE}
\* The lobby id that the handled ProvideLobbyInformation replied with.
RepliedId == last.sent[1].msg.info.id

\* C16: get_lobby_id(Quickplay) returns an existing lobby with a free seat
\* such that no other lobby with a free seat has more players, and leaves the
\* registry as it is; it creates a lobby, the registry growing by one, if and
\* only if no lobby has a free seat.
C16_Quickplay ==
    Handled("ProvideLobbyInformation") /\ last.msg.join_mode = "Quickplay"
    => /\ Len(last.sent) = 1
       /\ IF OpenBefore # {}
          THEN /\ lobbies = last.pre.lobbies
               /\ RepliedId \in OpenBefore
               /\ \A o \in OpenBefore : PreCount(o) <= PreCount(RepliedId)
          ELSE /\ Cardinality(DOMAIN lobbies) = Cardinality(DOMAIN last.pre.lobbies) + 1
               /\ RepliedId \in DOMAIN lobbies \ DOMAIN last.pre.lobbies
               /\ \A l \in DOMAIN last.pre.lobbies : lobbies[l] = PreLobby(l)

\* A Quickplay lookup chose between two lobbies with a free seat and a
\* different number of players, next to a full lobby.
C16_Witness ==
    /\ Handled("ProvideLobbyInformation") /\ last.msg.join_mode = "Quickplay"
    /\ \E a, b \in OpenBefore : PreCount(a) < PreCount(b) /\ RepliedId = b
    /\ \E f \in DOMAIN last.pre.lobbies : PreCount(f) = MAX_LOBBY_SIZE


\* C17: a progress submission handled for a member of a lobby that is not
\* InProgress, or for a waiting player, changes no player's progress and no
\* status, sends nothing and arms no timer, whatever the submitted bytes.
C17_ProgressGuard ==
    \A l \in LobbyIds :
        /\ HandledIn("ComputePlayerProgress", l)
        /\ last.msg.player_id \in DOMAIN PreLobby(l).players
        /\ \/ PreLobby(l).status.tag # "InProgress"
           \/ PreLobby(l).players[last.msg.player_id].waiting
        => NoOp

\* A member submitted the goal file while the lobby counted down to the
\* start, and the submission was dropped.
C17_Witness ==
    \E l \in DOMAIN lobbies :
        /\ HandledIn("ComputePlayerProgress", l)
        /\ last.msg.player_id \in DOMAIN PreLobby(l).players
        /\ last.msg.progress = GoalFile
        /\ PreLobby(l).status.tag = "AboutToStart"
        /\ lobbies[l].players[last.msg.player_id].progress = Zero


\* The order of two scores, fractions with a positive denominator.
Leq(x, y) == x[1] * y[2] <= y[1] * x[2]
Less(x, y) == x[1] * y[2] < y[1] * x[2]

\* C18: the score of a submission lies in [0,1], is 1 exactly when the
\* submission is identical to the goal, is 0 for an empty submission to a
\* non-empty goal, and is 1 - levenshtein / max(len goal, len submission).
C18_Score ==
    eval.scored =>
        LET g == eval.goal_file
            s == eval.player_file
            m == Max({Len(g), Len(s)})
        IN /\ Leq(Zero, eval.progress) /\ Leq(eval.progress, One)
           /\ eval.progress = One <=> s = g
           /\ (s = <<>> /\ g # <<>>) => eval.progress = Zero
           /\ m > 0 => /\ eval.progress[1] * m = (m - levenshtein(g, s)) * eval.progress[2]
                       /\ eval.progress[2] > 0

\* A submission longer than the goal and different in every character was
\* scored.
C18_Witness ==
    /\ eval.scored
    /\ Len(eval.player_file) > Len(eval.goal_file)
    /\ eval.goal_file # <<>>
    /\ levenshtein(eval.goal_file, eval.player_file) = Len(eval.player_file)
    /\ eval.progress = Zero


\* The edit distance of a text to the goal.
Distance(s) == levenshtein(eval.goal_file, s)
\* Two submissions were scored, one after the other, against the same goal.
ScoredTwice == eval.scored /\ eval.before.scored

\* C19 as stated: of two submissions of any lengths, the one with the
\* strictly smaller edit distance to the goal has at least the score of the
\* other.
C19_Monotone ==
    ScoredTwice /\ Distance(eval.player_file) < Distance(eval.before.player_file)
    => Leq(eval.before.progress, eval.progress)

\* C19: of two submissions for which max(len goal, len submission) is the
\* same, the one with the strictly smaller edit distance to the goal has the
\* strictly greater score.
C19_MonotoneSameLength ==
    /\ ScoredTwice
    /\ Max({Len(eval.goal_file), Len(eval.player_file)})
         = Max({Len(eval.goal_file), Len(eval.before.player_file)})
    /\ Distance(eval.player_file) < Distance(eval.before.player_file)
    => Less(eval.before.progress, eval.progress)

\* Two submissions of different lengths, neither longer than the goal, were
\* scored, the second one closer to the goal than the first.
C19_Witness ==
    /\ ScoredTwice
    /\ Len(eval.player_file) < Len(eval.before.player_file)
    /\ Len(eval.before.player_file) <= Len(eval.goal_file)
    /\ Distance(eval.player_file) < Distance(eval.before.player_file)
    /\ Less(eval.before.progress, eval.progress)


\* C20: RemovePlayer handled for a player who is not a member of the lobby
\* changes nothing, sends nothing, enqueues nothing and arms no timer; and
\* after any handled RemovePlayer the player is no member, so that handling
\* the same message once more is such a no-op.
C20_RemoveIdempotent ==
    \A l \in LobbyIds :
        HandledIn("RemovePlayer", l)
        => /\ last.msg.player \notin DOMAIN PreLobby(l).players => NoOp
           /\ l \in DOMAIN lobbies
              => /\ last.msg.player \notin DOMAIN lobbies[l].players
                 /\ remove_player(lobbies[l], l, last.msg.player)
                      = LobbyEffect(lobbies[l], <<>>, <<>>, <<>>)

\* RemovePlayer was handled for a player who is no member of a lobby that
\* other players sit in.
C20_Witness ==
    \E l \in DOMAIN lobbies :
        /\ HandledIn("RemovePlayer", l)
        /\ last.msg.player \notin DOMAIN PreLobby(l).players
        /\ DOMAIN PreLobby(l).players # {}
        /\ NoOp


\* The messages that name a lobby.
LobbyMessages ==
    {"AddPlayerToLobby", "RemovePlayer", "SendMessage", "RequestStart", "Start",
     "Finish", "Reset", "ComputePlayerProgress", "RemoveLobby",
     "SendLobbyPlayerCountUpdate", "SendLobbyStatusUpdate"}
\* The message m names a lobby, a player or a client that the registry does
\* not hold.
UnknownId(m) ==
    \/ m.type \in LobbyMessages /\ m.lobby_id \notin DOMAIN lobbies
    \/ /\ m.type \in {"RemovePlayer", "SendMessage", "RequestStart"}
       /\ m.lobby_id \in DOMAIN lobbies
       /\ m.player \notin DOMAIN lobbies[m.lobby_id].players
    \/ /\ m.type = "ComputePlayerProgress"
       /\ m.lobby_id \in DOMAIN lobbies
       /\ m.player_id \notin DOMAIN lobbies[m.lobby_id].players
    \/ m.type = "CurrentLobbies" /\ m.client_id \notin clients

\* C21: handling a message that names an absent lobby, player or client
\* changes neither the clients nor any lobby and sends nothing, and the loop
\* goes on with the message that was queued behind it.
C21_UnknownId ==
    [][(last'.msg.type # "None" /\ queue # <<>> /\ last'.msg = Head(queue)
            /\ UnknownId(Head(queue)))
       => /\ lobbies' = lobbies
          /\ clients' = clients
          /\ last'.sent = <<>>
          /\ last'.enq = <<>>
          /\ last'.armed = <<>>
          /\ queue' = Tail(queue)]_vars

\* The Finish timer of a lobby that has been removed in the meantime fired
\* and its message was handled.
C21_Witness ==
    /\ Handled("Finish")
    /\ last.msg.lobby_id \notin DOMAIN last.pre.lobbies
    /\ last.pre.lobbies # EmptyMap \/ last.pre.clients # {}
    /\ NoOp


\* A message of the given type was sent to the outbound channel `to`.
Got(to, type) == \E i \in 1..Len(last.sent) :
    last.sent[i].to = to /\ last.sent[i].msg.type = type
\* Every registered client was sent a message of the given type.
AllClientsGot(type) == \A c \in clients : Got(ToClient(c), type)
\* Every member of lobby l was sent a message of the given type.
AllMembersGot(l, type) == \A q \in DOMAIN lobbies[l].players : Got(ToPlayer(q), type)

C23_FirstMemberOwns ==
    \A l \in LobbyIds :
        /\ HandledIn("AddPlayerToLobby", l)
        /\ PreLobby(l).status = WaitingForPlayers
        /\ PreCount(l) < MAX_LOBBY_SIZE
        => LET p == last.msg.player
           IN /\ p \in DOMAIN lobbies[l].players
              /\ lobbies[l].status = WaitingForPlayers
              /\ WasSent(ToPlayer(p), [type |-> "ProvidePlayerId", id |-> p])
              /\ IF PreCount(l) = 0
                 THEN /\ lobbies[l].owner = p
                      /\ WasSent(ToPlayer(p), [type |-> "AssignOwner", id |-> p])
                 ELSE /\ lobbies[l].owner = PreLobby(l).owner
                      /\ lobbies[l].owner \in DOMAIN PreLobby(l).players
                      /\ ~Got(ToPlayer(p), "AssignOwner")

\* A second player was seated next to the owner and told its id.
C23_Witness ==
    \E l \in DOMAIN lobbies :
        /\ HandledIn("AddPlayerToLobby", l)
        /\ PreCount(l) = 1
        /\ Count(l) = 2
        /\ lobbies[l].owner # last.msg.player
        /\ Got(ToPlayer(last.msg.player), "ProvidePlayerId")


\* The position announced to player q by the handled message, or None.
Announced(q) ==
    LET I == {i \in 1..Len(last.sent) :
                /\ last.sent[i].to = ToPlayer(q)
                /\ last.sent[i].msg.type = "SendMessage"
                /\ "position" \in DOMAIN last.sent[i].msg}
    IN IF I = {} THEN None ELSE last.sent[Min(I)].msg.position

\* C24: when an accepted submission is scored 1, the position announced to
\* every member is the number of members who had progress 1 before the
\* submission was stored, plus one; no other submission announces a position.
C24_Position ==
    \A l \in LobbyIds :
        HandledIn("ComputePlayerProgress", l) /\ l \in DOMAIN lobbies
        => LET p == last.msg.player_id
               won == /\ p \in DOMAIN PreLobby(l).players
                      /\ PreLobby(l).status.tag = "InProgress"
                      /\ from_utf8_ok(last.msg.progress)
                      /\ normalized_levenshtein(GoalFile, last.msg.progress) = One
           IN \A q \in DOMAIN lobbies[l].players :
                Announced(q) = IF won
                               THEN Cardinality(Finishers(PreLobby(l))) + 1
                               ELSE None

\* The second of two players finished after the first and was announced in
\* position 2.
C24_Witness ==
    \E l \in DOMAIN lobbies :
        /\ HandledIn("ComputePlayerProgress", l)
        /\ Finishers(PreLobby(l)) # {}
        /\ last.msg.player_id \notin Finishers(PreLobby(l))
        /\ last.msg.player_id \in Finishers(lobbies[l])
        /\ \A q \in DOMAIN lobbies[l].players : Announced(q) = 2


\* C25 as stated: a RequestStart of a seated player that is refused, because
\* the player is not the owner or the lobby is not WaitingForPlayers, is
\* answered by a notification on the outbound channel of the requester.
C25_RejectionNotified ==
    \A l \in LobbyIds :
        /\ HandledIn("RequestStart", l)
        /\ last.msg.player \in DOMAIN PreLobby(l).players
        /\ \/ PreLobby(l).owner # last.msg.player
           \/ PreLobby(l).status # WaitingForPlayers
        => \E i \in 1..Len(last.sent) : last.sent[i].to = ToPlayer(last.msg.player)


\* The writes to the one-shot reply channel made by the handled message.
Replies == {i \in 1..Len(last.sent) : last.sent[i].to.kind = "reply"}

\* C26 as stated: every handled ProvideLobbyInformation writes exactly once
\* to its reply channel, and what it writes is the snapshot of a lobby of the
\* registry, for Join the lobby that the request names.
C26_OneReply ==
    Handled("ProvideLobbyInformation")
    => /\ Cardinality(Replies) = 1
       /\ \A i \in Replies :
            LET info == last.sent[i].msg.info
            IN /\ info.id \in DOMAIN lobbies
               /\ info = to_information(info.id, lobbies[info.id])
               /\ last.msg.join_mode = "Join" => info.id = last.msg.lobby_id


\* C27 as stated: when Start turns AboutToStart(d) into InProgress, the time
\* d has come: no second of the countdown remains.
C27_NoEarlyStart ==
    \A l \in LobbyIds :
        /\ HandledIn("Start", l)
        /\ l \in DOMAIN lobbies
        /\ PreLobby(l).status.tag = "AboutToStart"
        /\ lobbies[l].status.tag = "InProgress"
        => PreLobby(l).status.deadline = 0


\* C28 as stated: a submission handled for a lobby that is InProgress never
\* moves the deadline of the race to a later time.
C28_OnlyShortens ==
    \A l \in LobbyIds :
        /\ HandledIn("ComputePlayerProgress", l)
        /\ l \in DOMAIN lobbies
        /\ PreLobby(l).status.tag = "InProgress"
        => /\ lobbies[l].status.tag = "InProgress"
           /\ lobbies[l].status.deadline <= PreLobby(l).status.deadline


\* The messages that connections send: input of the clients.
ClientInput == {"ProvideLobbyInformation", "AddPlayerToLobby", "RemovePlayer", "RequestStart"}

\* Lobby l is in the phase tag.
InPhase(l, tag) == l \in DOMAIN lobbies /\ lobbies[l].status.tag = tag

\* Lobby l is InProgress and nothing a client sent is waiting in the queue.
QuietRace(l) ==
    /\ InPhase(l, "InProgress")
    /\ \A i \in 1..Len(queue) : queue[i].type \notin ClientInput

\* C29 as stated: with fair timer tasks and a fair actor loop, a lobby that
\* is InProgress while the clients send nothing reaches Finish, and a lobby
\* in Finish reaches WaitingForPlayers.
C29_RaceTerminates ==
    \A l \in LobbyIds :
        /\ QuietRace(l) ~> InPhase(l, "Finish")
        /\ InPhase(l, "Finish") ~> InPhase(l, "WaitingForPlayers")


\* The connection of p has sent its join and its RemovePlayer, and nothing it
\* sent is waiting in the queue.
TornDown(p) ==
    /\ conn[p].joined
    /\ conn[p].closed
    /\ \A i \in 1..Len(queue) :
           \/ queue[i].type \notin {"AddPlayerToLobby", "RemovePlayer", "RequestStart"}
           \/ queue[i].player # p

\* C30 as stated: once the socket of a player has closed and every message of
\* the connection has been handled, the player is a member of no lobby.
C30_Teardown ==
    \A p \in CountdownPlayers :
        TornDown(p) => \A l \in DOMAIN lobbies : p \notin DOMAIN lobbies[l].players


\* The lobbies that the last handled message added to the registry.
Added == DOMAIN lobbies \ DOMAIN last.pre.lobbies

\* C31: handling ProvideLobbyInformation with Create adds exactly one lobby,
\* under an id the registry did not hold, with no players, no owner and status
\* WaitingForPlayers, leaves the other lobbies as they were and enqueues
\* AddLobby for the new id. Handling it with Join adds no lobby, and when the
\* id is not registered it changes nothing, replies nothing and enqueues
\* nothing.
C31_CreateAndJoin ==
    Handled("ProvideLobbyInformation") =>
        /\ last.msg.join_mode = "Create" =>
            /\ Cardinality(Added) = 1
            /\ \A l \in Added :
                /\ lobbies[l] = DefaultLobby
                /\ last.enq = <<AddLobbyMsg(l)>>
            /\ \A l \in DOMAIN last.pre.lobbies :
                l \in DOMAIN lobbies /\ lobbies[l] = PreLobby(l)
        /\ last.msg.join_mode = "Join" =>
            /\ lobbies = last.pre.lobbies
            /\ last.enq = <<>>
            /\ last.msg.lobby_id \notin DOMAIN lobbies => last.sent = <<>>

\* Create was handled while the registry held a lobby with a free seat.
C31_Witness ==
    /\ Handled("ProvideLobbyInformation")
    /\ last.msg.join_mode = "Create"
    /\ \E l \in DOMAIN last.pre.lobbies : PreCount(l) < MAX_LOBBY_SIZE
    /\ Cardinality(Added) = 1


\* C32: a lobby without players has status WaitingForPlayers.
C32_EmptyWaits ==
    \A l \in DOMAIN lobbies :
        DOMAIN lobbies[l].players = {} => lobbies[l].status = WaitingForPlayers

\* The timer message of a phase was handled for a lobby that its players had
\* left in the meantime.
C32_Witness ==
    /\ last.msg.type \in {"Start", "Finish", "Reset"}
    /\ last.msg.lobby_id \in DOMAIN last.pre.lobbies
    /\ PreCount(last.msg.lobby_id) = 0
    /\ last.msg.lobby_id \in DOMAIN lobbies
    /\ lobbies[last.msg.lobby_id].status = WaitingForPlayers


\* C33: in a lobby that is WaitingForPlayers or AboutToStart every member has
\* progress 0.
C33_StartFromZero ==
    \A l \in DOMAIN lobbies :
        lobbies[l].status.tag \in {"WaitingForPlayers", "AboutToStart"} =>
            \A p \in DOMAIN lobbies[l].players : lobbies[l].players[p].progress = Zero

\* Reset was handled for a lobby in Finish with a member who had finished the
\* race, and the member is still there.
C33_Witness ==
    /\ Handled("Reset")
    /\ last.msg.lobby_id \in DOMAIN last.pre.lobbies
    /\ PreLobby(last.msg.lobby_id).status.tag = "Finish"
    /\ \E p \in DOMAIN PreLobby(last.msg.lobby_id).players :
        /\ PreLobby(last.msg.lobby_id).players[p].progress = One
        /\ last.msg.lobby_id \in DOMAIN lobbies
        /\ p \in DOMAIN lobbies[last.msg.lobby_id].players


\* C34 as stated: when AddPlayerToLobby is handled the candidate is told its
\* id or a rejection is enqueued for it, and a handled rejection is sent on
\* the candidate's channel.
C34_JoinAnswered ==
    /\ Handled("AddPlayerToLobby") =>
        \/ Got(ToPlayer(last.msg.player), "ProvidePlayerId")
        \/ last.enq = <<LobbyFullMsg(last.msg.player)>>
        \/ last.enq = <<LobbyNotWaitingForPlayersMsg(last.msg.player)>>
    /\ Handled("LobbyFull") => Got(ToPlayer(last.msg.player_tx), "LobbyFull")
    /\ Handled("LobbyNotWaitingForPlayers") =>
        Got(ToPlayer(last.msg.player_tx), "LobbyNotWaitingForPlayers")


\* Lobby l is registered and has no players.
EmptyLobby(l) == l \in DOMAIN lobbies /\ DOMAIN lobbies[l].players = {}

\* C35 as stated: with fair timer tasks and a fair actor loop, a lobby without
\* players is removed from the registry unless a player is seated in it.
C35_NoLeak ==
    \A l \in LobbyIds : EmptyLobby(l) ~> ~EmptyLobby(l)


\* C36 as stated: while the inbound queue is empty, the lobby list of every
\* registered client with an open connection has the ids of the registry and,
\* for each of them, the player count and the status of the registry.
C36_ClientView ==
    queue = <<>> =>
        \A c \in clients :
            cconn[c] = "open" =>
                /\ DOMAIN view[c] = DOMAIN lobbies
                /\ \A l \in DOMAIN lobbies : view[c][l] = to_list_item(lobbies[l])


\* C37 as stated: a submission that is announced comes from a player who had
\* not finished this race before, and position 1 is announced only by the
\* first finish of a race.
C37_AnnouncedOnce ==
    \A l \in LobbyIds :
        /\ HandledIn("ComputePlayerProgress", l)
        /\ l \in DOMAIN lobbies
        /\ last.msg.player_id \in DOMAIN lobbies[l].players
        /\ Announced(last.msg.player_id) # None
        => /\ last.msg.player_id \notin Finishers(PreLobby(l))
           /\ Announced(last.msg.player_id) = 1 => sinceWin[l] = 0


\* client/src/schema/lobby.rs, Lobby::handle_message: the player map and the
\* owner a player's client holds after the backend message msg.
lobby_handle_message(shown, msg) ==
    CASE msg.type = "AddPlayer" -> [shown EXCEPT !.players = @ \cup {msg.id}]
      [] msg.type = "RemovePlayer" -> [shown EXCEPT !.players = @ \ {msg.id}]
      [] msg.type = "AssignOwner" ->
            IF msg.id \in shown.players THEN [shown EXCEPT !.owner = msg.id] ELSE shown
      [] OTHER -> shown

\* What the client of player p holds after the messages of sent addressed to
\* it, handled in the order they were sent.
RECURSIVE Shown(_, _, _)
Shown(shown, p, sent) ==
    IF sent = <<>> THEN shown
    ELSE Shown(IF Head(sent).to = ToPlayer(p)
               THEN lobby_handle_message(shown, Head(sent).msg)
               ELSE shown,
               p, Tail(sent))

\* The places in last.sent of the messages of a type sent to player p about
\* player p.
SentAt(p, type) ==
    {i \in 1..Len(last.sent) :
        /\ last.sent[i].to = ToPlayer(p)
        /\ last.sent[i].msg.type = type
        /\ last.sent[i].msg.id = p}

\* C38: a player that is seated is sent AddPlayer for itself, then AssignOwner
\* if it is the first member, then ProvidePlayerId, each once and in this
\* order; a client that starts from the members the lobby had and takes
\* AssignOwner only for a player in its player map ends up with itself as the
\* owner when it is the first member.
C38_OwnChannelOrder ==
    \A l \in LobbyIds :
        /\ HandledIn("AddPlayerToLobby", l)
        /\ l \in DOMAIN lobbies
        /\ last.msg.player \in DOMAIN lobbies[l].players
        /\ last.msg.player \notin DOMAIN PreLobby(l).players
        => LET p == last.msg.player
               first == PreCount(l) = 0
               shown == Shown([players |-> DOMAIN PreLobby(l).players, owner |-> None],
                              p, last.sent)
           IN /\ Cardinality(SentAt(p, "AddPlayer")) = 1
              /\ Cardinality(SentAt(p, "ProvidePlayerId")) = 1
              /\ Cardinality(SentAt(p, "AssignOwner")) = (IF first THEN 1 ELSE 0)
              /\ \A i \in SentAt(p, "AddPlayer"), k \in SentAt(p, "ProvidePlayerId") :
                    /\ i < k
                    /\ \A j \in SentAt(p, "AssignOwner") : i < j /\ j < k
              /\ p \in shown.players
              /\ first => shown.owner = p

\* The first member of a lobby was seated and sent the three messages.
C38_Witness ==
    \E l \in DOMAIN lobbies :
        /\ HandledIn("AddPlayerToLobby", l)
        /\ PreCount(l) = 0
        /\ last.msg.player \in DOMAIN lobbies[l].players
        /\ SentAt(last.msg.player, "AssignOwner") # {}
        /\ SentAt(last.msg.player, "ProvidePlayerId") # {}


\* C39 as stated: the lobby that a handled Quickplay lookup replies with is
\* one in which add_player, called next, seats a new player.
C39_QuickplayJoinable ==
    /\ Handled("ProvideLobbyInformation")
    /\ last.msg.join_mode = "Quickplay"
    /\ last.sent # <<>>
    => \A p \in PlayerIds \ DOMAIN lobbies[RepliedId].players :
           p \in DOMAIN add_player(lobbies[RepliedId], RepliedId, p).lobby.players

====
